---- MODULE Spec2Model ----
(***************************************************************************)
(* API access and reliability layer of easel: the token-bucket            *)
(* RateLimiter (easel/api/rate_limit.py), the retrying request executor   *)
(* CanvasClient._make_request / _handle_response (easel/api/client.py)    *)
(* and the link-header PaginatedIterator (easel/api/pagination.py).       *)
(*                                                                         *)
(* Time is counted in ticks of 1/TicksPerSecond s.  Token amounts are     *)
(* fixed-point numbers counted in quanta of 1/One token, and a rate is    *)
(* counted in quanta per tick, so that the float arithmetic of the        *)
(* limiter (elapsed * rate, 1.0 / rate) is exact on the modelled values.  *)
(***************************************************************************)
EXTENDS Integers, Sequences, FiniteSets, TLC

\* ---------------------------------------------------------------- bounds
NumTasks == 2
MaxTime == 3
MaxClientTime == 6
MaxRetriesBound == 2
MaxPages == 3
MaxPageSize == 2
MaxCourses == 2
\* Fernet.generate_key is followed for this many fresh keys
MaxKeys == 3

\* ----------------------------------------------------------------- units
\* the literal 1 of "if self.tokens >= 1: self.tokens -= 1", in quanta
One == 4
\* the 1.0 second of "wait_time = 1.0 / self.requests_per_second", in ticks
TicksPerSecond == 2
\* Python None in an Optional[int] / Optional[float] position
None == -1

Tasks == 1..NumTasks
NoTask == 0

Min(a, b) == IF a <= b THEN a ELSE b

\* requests_per_second values, in quanta per tick: 0.5, 1 and 2 requests/s
Rates == {1, 2, 4}
\* timeout arguments of a direct acquire() call, in ticks
AcquireTimeouts == {None, 1}

VARIABLES
  now,                  \* time.monotonic(), in ticks
  requests_per_second,  \* RateLimiter.requests_per_second, quanta per tick
  bucket_capacity,      \* RateLimiter.bucket_capacity, quanta
  tokens,               \* RateLimiter.tokens, quanta
  last_refill,          \* RateLimiter.last_refill, ticks
  lock,                 \* holder of RateLimiter._lock, NoTask when free
  waiters,              \* FIFO of the tasks suspended in _lock.acquire()
  pc,                   \* where each task is suspended
  mode,                 \* the operation a task runs: "acquire", "request"
  start_time,           \* acquire(): start_time of the call in progress
  acq_timeout,          \* acquire(): the timeout argument
  wake,                 \* due time of the asyncio.sleep a task awaits
  result,               \* outcome of the task's last finished operation
  max_retries,          \* CanvasClient.max_retries
  timeout,              \* CanvasClient.timeout, in ticks
  attempt,              \* _make_request: the loop variable "attempt"
  req_url,              \* _make_request: the page its url argument names
  pages,                \* the server's listing: its pages, in order
  cur_items,            \* PaginatedIterator.current_response.items
  cur_next,             \* ...current_response.pagination.next_url
  current_index,        \* PaginatedIterator._current_index
  it_state,             \* the sequence: "none", "ready" or "aborted"
  last_anext,           \* how the last __anext__ call ended
  yielded,              \* history: the items __anext__ returned so far
  collect_all,          \* collect_all(): limit, all_items and count of the
                        \* call in progress
  collected,            \* outcome of the last collect_all() call
  fetches,              \* history: _make_request calls made for the sequence
  log,                  \* history: what the logical call in progress did
  admitted,             \* history: admissions since construction, while steady
  steady,               \* history: no set_rate_limit or reset so far
  availNow,             \* history, while steady: tokens a refill would have
                        \* given when the clock last advanced
  admitNow              \* history, while steady: admissions since then

limiterVars == <<requests_per_second, bucket_capacity, tokens, last_refill>>
lockVars == <<lock, waiters>>
histVars == <<admitted, steady, availNow, admitNow>>
taskVars == <<pc, mode, start_time, acq_timeout, wake, result>>
configVars == <<max_retries, timeout, pages>>
callVars == <<attempt, log, req_url>>
iterState == <<cur_items, cur_next, current_index, it_state, last_anext, yielded>>
iterVars == <<iterState, collect_all, collected>>

\* easel.core: the counter-idiom client (core/client.py) and the CourseCache
\* (core/cache.py); strings are sequences of characters
VARIABLES
  cpages,               \* the server's course listing, as the pages it serves
  cpaging,              \* "paged", or "ignored" when the server ignores page=N
  per_page,             \* get_paginated: the per_page argument
  cpc,                  \* where each task is suspended in core CanvasClient
  cop,                  \* the core operation a task runs
  cident,               \* resolve: val = str(identifier)
  cattempt,             \* request: the loop variable "attempt"
  cpage,                \* get_paginated: page
  all_results,          \* get_paginated: all_results
  cresult,              \* outcome of the task's last finished core operation
  code_to_id,           \* CourseCache._code_to_id
  id_to_code,           \* CourseCache._id_to_code
  lookup,               \* the last get_id / get_code call and what it returned
  clog,                 \* history: what the core operation in progress did
  rlog,                 \* history: attempts and sleeps of its last request()
  snapshot              \* history: the maps as the last rebuild left them

\* easel.config.credentials: the CredentialManager and the stores it uses
VARIABLES
  keyring_up,           \* the OS keyring answers (TRUE) or raises (FALSE)
  keyring_key,          \* keyring entry "encryption_key", None when not set
  key_file,             \* content of config_dir/.key, None when no such file
  credentials_file,     \* the credentials file: whether it exists, its mapping
  next_key,             \* the next key Fernet.generate_key() will produce
  cred_result,          \* the last CredentialManager call and its outcome
  stored                \* history: per instance, the token last stored and
                        \* not removed since

\* easel.config.manager: the ConfigManager, its file and its environment
VARIABLES
  config_file,          \* the configuration file: whether it exists, its content
  env_token,            \* os.environ["CANVAS_API_TOKEN"], NoToken when unset
  cfg_result            \* the last ConfigManager call and its outcome

coreVars == <<cpages, cpaging, per_page, cpc, cop, cident, cattempt, cpage,
              all_results, cresult, code_to_id, id_to_code, lookup, clog,
              rlog, snapshot>>
credVars == <<keyring_up, keyring_key, key_file, credentials_file, next_key,
              cred_result, stored>>
cfgVars == <<config_file, env_token, cfg_result>>
apiVars == <<now, limiterVars, lockVars, taskVars, configVars, callVars, histVars,
             iterVars, fetches>>
vars == <<apiVars, coreVars, credVars, cfgVars>>

\* ------------------------------------------------------------ RateLimiter
\* the bucket as a record, so that the methods are operators on it
Bucket == [rate |-> requests_per_second, cap |-> bucket_capacity,
           tokens |-> tokens, last |-> last_refill]

\* RateLimiter.__init__
NewBucket(rps, t) ==
  [rate |-> rps, cap |-> rps * TicksPerSecond,
   tokens |-> rps * TicksPerSecond, last |-> t]

\* _refill_bucket that forgets "self.last_refill = now"
RefillBucketNoStamp(b, t) ==
  [b EXCEPT !.tokens = Min(b.cap, b.tokens + (t - b.last) * b.rate)]

\* RateLimiter._refill_bucket
RefillBucket(b, t) ==
  [b EXCEPT !.tokens = Min(b.cap, b.tokens + (t - b.last) * b.rate),
            !.last = t]

\* set_rate_limit without the "Don't exceed new capacity" clamp
SetRateLimitNoClamp(b, rps) ==
  [b EXCEPT !.rate = rps, !.cap = rps * TicksPerSecond]

\* RateLimiter.set_rate_limit
SetRateLimit(b, rps) ==
  LET cap == rps * TicksPerSecond
  IN [b EXCEPT !.rate = rps, !.cap = cap,
               !.tokens = IF b.tokens > cap THEN cap ELSE b.tokens]

\* RateLimiter.reset
ResetBucket(b, t) == [b EXCEPT !.tokens = b.cap, !.last = t]

\* wait_time = 1.0 / self.requests_per_second, in ticks
WaitTime(b) == One \div b.rate

\* a pass that forgets "self._refill_bucket()"
AcquirePassNoRefill(b, t, start, tmo) ==
  IF b.tokens >= One
    THEN [out |-> "admitted", bucket |-> [b EXCEPT !.tokens = b.tokens - One]]
    ELSE IF tmo # None /\ t - start >= tmo
      THEN [out |-> "timeout", bucket |-> b]
      ELSE [out |-> "sleep", bucket |-> b]

\* one pass of the "while True" body of acquire(), up to its return, raise
\* or sleep
AcquirePass(b, t, start, tmo) ==
  LET r == RefillBucket(b, t)
  IN IF r.tokens >= One
       THEN [out |-> "admitted", bucket |-> [r EXCEPT !.tokens = r.tokens - One]]
       ELSE IF tmo # None /\ t - start >= tmo
         THEN [out |-> "timeout", bucket |-> r]
         ELSE [out |-> "sleep", bucket |-> r]

SetBucket(b) ==
  /\ requests_per_second' = b.rate
  /\ bucket_capacity' = b.cap
  /\ tokens' = b.tokens
  /\ last_refill' = b.last

OkResult == [err |-> "none", status_code |-> None, retry_after |-> None]
NoResult == [err |-> "pending", status_code |-> None, retry_after |-> None]
\* CanvasRateLimitError(f"Rate limit timeout after ...") raised by acquire()
AcquireTimeoutError ==
  [err |-> "CanvasRateLimitError", status_code |-> None, retry_after |-> None]

\* an acquire() that does not wait for the lock
LockIgnored == TRUE

\* "async with self._lock" is entered without suspending when the lock is
\* free and nobody waits for it
LockFree == lock = NoTask /\ waiters = <<>>

\* ------------------------------------------------ CanvasClient (easel/api)
\* HTTP status codes a response may carry
StatusCodes == {200, 204, 301, 400, 401, 403, 404, 429, 500, 503}
\* values of the Retry-After header; "absent" stands for a missing header
RetryAfterHeaders == {"absent", "0", "1", "2", "soon"}

\* int(response.headers["Retry-After"]): the integer, or ValueError
IntOf(text) ==
  CASE text = "0" -> [ok |-> TRUE, val |-> 0]
    [] text = "1" -> [ok |-> TRUE, val |-> 1]
    [] text = "2" -> [ok |-> TRUE, val |-> 2]
    [] OTHER -> [ok |-> FALSE, val |-> None]

Error(cls, status, ra) == [err |-> cls, status_code |-> status, retry_after |-> ra]

\* response.is_success
IsSuccess(status) == 200 <= status /\ status <= 299

\* a 429 handler that never reads the header
ParseRetryAfterDropped(hdr) == None

\* the retry_after computed for a 429 in _handle_response
ParseRetryAfter(hdr) ==
  IF hdr # "absent"
    THEN (IF IntOf(hdr).ok THEN IntOf(hdr).val ELSE None)
    ELSE None

\* a _handle_response that tests the 4xx range before the specific codes
HandleResponseRangeFirst(status, hdr) ==
  IF IsSuccess(status) THEN [OkResult EXCEPT !.status_code = status]
  ELSE IF status = 429
    THEN Error("CanvasRateLimitError", status, ParseRetryAfter(hdr))
  ELSE IF 400 <= status /\ status < 500
    THEN Error("CanvasValidationError", status, None)
  ELSE IF status = 401 THEN Error("CanvasAuthError", status, None)
  ELSE IF status = 403 THEN Error("CanvasPermissionError", status, None)
  ELSE IF status = 404 THEN Error("CanvasNotFoundError", status, None)
  ELSE IF status >= 500 THEN Error("CanvasServerError", status, None)
  ELSE Error("CanvasAPIError", status, None)

\* CanvasClient._handle_response: the exception it raises, OkResult when it
\* returns
HandleResponse(status, hdr) ==
  IF IsSuccess(status) THEN [OkResult EXCEPT !.status_code = status]
  ELSE IF status = 429
    THEN Error("CanvasRateLimitError", status, ParseRetryAfter(hdr))
  ELSE IF status = 401 THEN Error("CanvasAuthError", status, None)
  ELSE IF status = 403 THEN Error("CanvasPermissionError", status, None)
  ELSE IF status = 404 THEN Error("CanvasNotFoundError", status, None)
  ELSE IF 400 <= status /\ status < 500
    THEN Error("CanvasValidationError", status, None)
  ELSE IF status >= 500 THEN Error("CanvasServerError", status, None)
  ELSE Error("CanvasAPIError", status, None)

\* 2**attempt, in seconds
RECURSIVE Pow2(_)
Pow2(n) == IF n = 0 THEN 1 ELSE 2 * Pow2(n - 1)

Backoff(att) == Pow2(att)

\* "if e.retry_after:" -- Python truth value of an Optional[int]
Truthy(v) == v # None /\ v # 0

\* a retry loop that gives up one attempt early
FinalAttemptEarly(att, maxr) == att + 1 >= maxr

\* "if attempt == self.max_retries"
FinalAttempt(att, maxr) == att = maxr

Raise(e) == [action |-> "raise", error |-> e, delay |-> None]
Sleep(e, d) == [action |-> "sleep", error |-> e, delay |-> d]

\* except clauses that also retry a CanvasServerError
ExceptHandlerRetry5xx(exc, att, maxr) ==
  IF exc.err = "httpx.TimeoutException"
    THEN IF FinalAttempt(att, maxr)
      THEN Raise(Error("CanvasTimeoutError", None, None))
      ELSE Sleep(exc, Backoff(att))
  ELSE IF exc.err \in {"httpx.RequestError", "CanvasServerError"}
    THEN IF FinalAttempt(att, maxr)
      THEN Raise(Error("CanvasAPIError", None, None))
      ELSE Sleep(exc, Backoff(att))
  ELSE IF exc.err = "CanvasRateLimitError"
    THEN IF FinalAttempt(att, maxr)
      THEN Raise(exc)
      ELSE IF Truthy(exc.retry_after)
        THEN Sleep(exc, exc.retry_after)
        ELSE Sleep(exc, Backoff(att))
  ELSE Raise(exc)

\* the except clauses of the retry loop of _make_request, applied to the
\* exception exc raised inside the try block on attempt att: raise out of
\* _make_request, or sleep delay seconds and loop
ExceptHandler(exc, att, maxr) ==
  IF exc.err = "httpx.TimeoutException"
    THEN IF FinalAttempt(att, maxr)
      THEN Raise(Error("CanvasTimeoutError", None, None))
      ELSE Sleep(exc, Backoff(att))
  ELSE IF exc.err = "httpx.RequestError"
    THEN IF FinalAttempt(att, maxr)
      THEN Raise(Error("CanvasAPIError", None, None))
      ELSE Sleep(exc, Backoff(att))
  ELSE IF exc.err = "CanvasRateLimitError"
    THEN IF FinalAttempt(att, maxr)
      THEN Raise(exc)
      ELSE IF Truthy(exc.retry_after)
        THEN Sleep(exc, exc.retry_after)
        ELSE Sleep(exc, Backoff(att))
  ELSE Raise(exc)

\* what awaiting client.request(...) can produce
TransportErrors == {"httpx.TimeoutException", "httpx.RequestError"}
Outcomes ==
  [kind : {"response"}, status : StatusCodes \ {429}, hdr : {"absent"}, err : {"none"}]
  \cup [kind : {"response"}, status : {429}, hdr : RetryAfterHeaders, err : {"none"}]
  \cup [kind : {"exception"}, status : {None}, hdr : {"absent"}, err : TransportErrors]

\* ------------------------------------------------------------ pagination
\* a Link header is the sequence of its comma-separated pieces; a piece is
\* well formed when it matches <([^>]+)>;\s*rel="([^"]+)"
Rels == {"current", "first", "prev", "next", "last"}
NoLinks == [r \in Rels |-> None]

\* _parse_link_header: the dictionary rel -> url, later pieces overwriting
\* earlier ones, pieces that do not match skipped
RECURSIVE ParseLinkHeader(_)
ParseLinkHeader(link) ==
  IF link = <<>> THEN NoLinks
  ELSE LET front == ParseLinkHeader(SubSeq(link, 1, Len(link) - 1))
           piece == link[Len(link)]
       IN IF piece.ok THEN [front EXCEPT ![piece.rel] = piece.url] ELSE front

\* a parser that takes the next page from the rel="last" link
NextUrlFromLast(links) == links["last"]

\* pagination.next_url = links.get("next")
NextUrl(links) == links["next"]

\* PaginatedResponse.from_response, for the response that carries page
FromResponse(page) ==
  [items |-> page.items,
   next_url |-> IF page.link # <<>> THEN NextUrl(ParseLinkHeader(page.link))
                ELSE None]

\* PaginatedResponse.has_next_page
HasNextPage(next_url) == next_url # None

\* no collect_all() call is running: __anext__ is called by the consumer
NotCollecting == [pc |-> "off", limit |-> None, all_items |-> <<>>, count |-> 0]
NothingCollected == [out |-> "none", limit |-> None, items |-> <<>>]

\* what the "async for item in self" of collect_all, with locals c, does
\* when __anext__ ends with outcome: the new locals, and whether collect_all
\* goes on ("none"), returns all_items or lets the exception through
Collect(c, outcome, item) ==
  IF c.pc = "off" THEN [locals |-> c, out |-> "none"]
  ELSE IF outcome = "item"
    THEN LET d == [c EXCEPT !.all_items = Append(c.all_items, item),
                            !.count = c.count + 1]
         IN IF Truthy(d.limit) /\ d.count >= d.limit
              THEN [locals |-> d, out |-> "return"]
              ELSE [locals |-> d, out |-> "none"]
  ELSE IF outcome = "StopAsyncIteration" THEN [locals |-> c, out |-> "return"]
  ELSE [locals |-> c, out |-> "raise"]

\* the collect_all with locals c stays where it is
KeepCollect(c) ==
  /\ collect_all' = c
  /\ collected' = collected

\* the variables of collect_all after __anext__ ended with outcome
SetCollect(c, outcome, item) ==
  LET r == Collect(c, outcome, item)
  IN IF r.out = "none"
       THEN /\ collect_all' = r.locals
            /\ collected' = collected
       ELSE /\ collect_all' = NotCollecting
            /\ collected' = [out |-> r.out, limit |-> c.limit,
                              items |-> r.locals.all_items]

\* ---------------------------------------------------------------- actions
\* what the caller of _make_request does when the call, made in mode md for
\* page u, ends with outcome r
IterContinue(md, u, r, c) ==
  IF md = "first"
    THEN \* get_courses() etc., then PaginatedIterator(client, response, ...)
      IF r.err = "none"
        THEN /\ cur_items' = FromResponse(pages[u]).items
             /\ cur_next' = FromResponse(pages[u]).next_url
             /\ current_index' = 0
             /\ it_state' = "ready"
             /\ KeepCollect(c)
             /\ UNCHANGED <<last_anext, yielded>>
        ELSE /\ it_state' = "aborted"
             /\ KeepCollect(c)
             /\ UNCHANGED <<cur_items, cur_next, current_index, last_anext, yielded>>
  ELSE IF md = "next"
    THEN \* the rest of __anext__ after "await self.client._make_request"
      IF r.err = "none"
        THEN LET items == FromResponse(pages[u]).items
             IN /\ cur_items' = items
                /\ cur_next' = FromResponse(pages[u]).next_url
                /\ IF Len(items) > 0
                     THEN /\ current_index' = 1
                          /\ yielded' = Append(yielded, items[1])
                          /\ last_anext' = "item"
                          /\ it_state' = "ready"
                          /\ SetCollect(c, "item", items[1])
                     ELSE \* self.current_response.items[0] of an empty list
                          /\ current_index' = 0
                          /\ yielded' = yielded
                          /\ last_anext' = "IndexError"
                          /\ it_state' = "aborted"
                          /\ SetCollect(c, "IndexError", None)
        ELSE /\ it_state' = "aborted"
             /\ last_anext' = "error"
             /\ SetCollect(c, "error", None)
             /\ UNCHANGED <<cur_items, cur_next, current_index, yielded>>
  ELSE UNCHANGED iterState /\ KeepCollect(c)

\* the operation of task t ends with outcome r: its locals are dropped and
\* its caller goes on
Finish(t, md, u, r, c) ==
  /\ pc' = [pc EXCEPT ![t] = "idle"]
  /\ result' = [result EXCEPT ![t] = r]
  /\ wake' = [wake EXCEPT ![t] = 0]
  /\ IterContinue(md, u, r, c)

\* the locals start_time and timeout of the acquire() call of task t
AcquireLocals(t, start, tmo) ==
  /\ start_time' = [start_time EXCEPT ![t] = start]
  /\ acq_timeout' = [acq_timeout EXCEPT ![t] = tmo]

\* the try block raised exc on attempt att of task t, whose history is lg:
\* the except clauses either raise out of _make_request or sleep
Except(t, md, u, exc, att, lg, c) ==
  LET h == ExceptHandler(exc, att, max_retries)
  IN IF h.action = "raise"
       THEN /\ Finish(t, md, u, h.error, c)
            /\ log' = [log EXCEPT ![t] = lg]
       ELSE /\ pc' = [pc EXCEPT ![t] = "backoff"]
            /\ result' = result
            /\ log' = [log EXCEPT ![t] = Append(lg, <<"sleep", h.delay>>)]
            /\ wake' = [wake EXCEPT ![t] = now + h.delay * TicksPerSecond]
            /\ UNCHANGED iterState /\ KeepCollect(c)

\* task t, holding the lock, runs one pass of the loop of acquire(); md is
\* the operation it runs and u its page, start and tmo the call's start_time and timeout,
\* att and lg the attempt and history of its _make_request
Pass(t, md, u, start, tmo, att, lg, c) ==
  LET p == AcquirePass(Bucket, now, start, tmo)
  IN /\ SetBucket(p.bucket)
     /\ UNCHANGED <<steady, availNow>>
     /\ IF p.out = "sleep"
          THEN /\ lock' = t
               /\ AcquireLocals(t, start, tmo)
               /\ pc' = [pc EXCEPT ![t] = "sleeping"]
               /\ wake' = [wake EXCEPT ![t] = now + WaitTime(p.bucket)]
               /\ log' = [log EXCEPT ![t] = lg]
               /\ UNCHANGED <<result, admitted, admitNow, iterState>> /\ KeepCollect(c)
          ELSE /\ lock' = NoTask
               /\ AcquireLocals(t, 0, None)
               /\ IF p.out = "admitted"
                    THEN /\ admitted' = IF steady THEN admitted + 1 ELSE admitted
                         /\ admitNow' = IF steady THEN admitNow + 1 ELSE admitNow
                         /\ IF md = "acquire"
                              THEN /\ Finish(t, md, u, OkResult, c)
                                   /\ log' = [log EXCEPT ![t] = lg]
                              ELSE \* "await client.request(...)"
                                   /\ pc' = [pc EXCEPT ![t] = "http"]
                                   /\ result' = result
                                   /\ wake' = [wake EXCEPT ![t] = 0]
                                   /\ log' = [log EXCEPT ![t] = Append(lg, <<"admit">>)]
                                   /\ UNCHANGED iterState /\ KeepCollect(c)
                    ELSE /\ UNCHANGED <<admitted, admitNow>>
                         /\ IF md = "acquire"
                              THEN /\ Finish(t, md, u, AcquireTimeoutError, c)
                                   /\ log' = [log EXCEPT ![t] = lg]
                              ELSE Except(t, md, u, AcquireTimeoutError, att,
                                          Append(lg, <<"acq_timeout">>), c)

\* task t calls self.rate_limiter.acquire(tmo): it runs the first pass at
\* once when the lock is free, and queues for the lock otherwise
Enter(t, md, tmo, att, lg, u, c) ==
  /\ mode' = [mode EXCEPT ![t] = md]
  /\ attempt' = [attempt EXCEPT ![t] = att]
  /\ req_url' = [req_url EXCEPT ![t] = u]
  /\ IF LockFree
       THEN /\ Pass(t, md, u, now, tmo, att, lg, c)
            /\ waiters' = waiters
       ELSE /\ waiters' = Append(waiters, t)
            /\ AcquireLocals(t, now, tmo)
            /\ pc' = [pc EXCEPT ![t] = "waitlock"]
            /\ log' = [log EXCEPT ![t] = lg]
            /\ UNCHANGED <<limiterVars, lock, wake, result, histVars, iterState>>
            /\ KeepCollect(c)

\* a task calls RateLimiter.acquire(timeout=tmo) directly
CallAcquire(t, tmo) ==
  /\ pc[t] = "idle"
  /\ Enter(t, "acquire", tmo, 0, <<>>, None, collect_all)
  /\ UNCHANGED <<now, configVars, coreVars, credVars, cfgVars, fetches>>

\* a task calls CanvasClient._make_request: attempt 0 of the retry loop
CallMakeRequest(t) ==
  /\ pc[t] = "idle"
  /\ Enter(t, "request", timeout, 0, <<>>, None, collect_all)
  /\ UNCHANGED <<now, configVars, coreVars, credVars, cfgVars, fetches>>

\* the lock is handed to the first waiter, which enters the loop
LockGranted(t) ==
  /\ pc[t] = "waitlock"
  /\ lock = NoTask
  /\ waiters # <<>> /\ Head(waiters) = t
  /\ waiters' = Tail(waiters)
  /\ Pass(t, mode[t], req_url[t], start_time[t], acq_timeout[t], attempt[t], log[t],
          collect_all)
  /\ UNCHANGED <<now, configVars, coreVars, credVars, cfgVars, mode, attempt, req_url, fetches>>

\* "await asyncio.sleep(wait_time)" of acquire() is over: next pass
LimiterWake(t) ==
  /\ pc[t] = "sleeping"
  /\ now >= wake[t]
  /\ Pass(t, mode[t], req_url[t], start_time[t], acq_timeout[t], attempt[t], log[t],
          collect_all)
  /\ UNCHANGED <<now, configVars, coreVars, credVars, cfgVars, waiters, mode, attempt, req_url, fetches>>

\* "await client.request(...)" completes with outcome o; a response goes
\* through _handle_response
HttpReturn(t, o) ==
  /\ pc[t] = "http"
  /\ LET exc == IF o.kind = "exception" THEN Error(o.err, None, None)
                ELSE HandleResponse(o.status, o.hdr)
         lg == Append(log[t], <<"http", o>>)
     IN IF exc.err = "none"
          THEN /\ Finish(t, mode[t], req_url[t], exc, collect_all)
               /\ log' = [log EXCEPT ![t] = lg]
          ELSE Except(t, mode[t], req_url[t], exc, attempt[t], lg, collect_all)
  /\ UNCHANGED <<now, limiterVars, lockVars, configVars, coreVars, credVars, cfgVars, histVars,
                 mode, start_time, acq_timeout, attempt, req_url, fetches>>

\* a retry loop whose "await self.rate_limiter.acquire(...)" sits before the
\* "for", so that a later attempt goes to client.request at once
BackoffWakeNoAcquire(t) ==
  /\ pc[t] = "backoff"
  /\ now >= wake[t]
  /\ pc' = [pc EXCEPT ![t] = "http"]
  /\ attempt' = [attempt EXCEPT ![t] = attempt[t] + 1]
  /\ wake' = [wake EXCEPT ![t] = 0]
  /\ UNCHANGED <<now, limiterVars, lockVars, configVars, coreVars, credVars, cfgVars,
                 histVars, mode, start_time, acq_timeout, result, log, req_url,
                 iterVars, fetches>>

\* the backoff sleep of the retry loop is over: next attempt
BackoffWake(t) ==
  /\ pc[t] = "backoff"
  /\ now >= wake[t]
  /\ Enter(t, mode[t], timeout, attempt[t] + 1, log[t], req_url[t], collect_all)
  /\ UNCHANGED <<now, configVars, coreVars, credVars, cfgVars, fetches>>

\* the first page is requested (get_courses() and the like) and the
\* PaginatedIterator is built from its response
ListFirstPage(t) ==
  /\ pc[t] = "idle"
  /\ it_state = "none" /\ fetches = 0
  /\ pages # <<>>
  /\ fetches' = 1
  /\ Enter(t, "first", timeout, 0, <<>>, 1, collect_all)
  /\ UNCHANGED <<now, configVars, coreVars, credVars, cfgVars>>

\* PaginatedIterator.__anext__ called by task t, up to its return, raise or
\* await; c holds the locals of the collect_all that called it, if one did
AnextFrom(t, c) ==
  /\ pc[t] = "idle"
  /\ it_state = "ready"
  /\ IF current_index >= Len(cur_items)
       THEN IF ~HasNextPage(cur_next)
              THEN /\ last_anext' = "StopAsyncIteration"
                   /\ SetCollect(c, "StopAsyncIteration", None)
                   /\ UNCHANGED <<now, limiterVars, lockVars, taskVars, configVars,
                                  coreVars, credVars, cfgVars, callVars, histVars, fetches,
                                  cur_items, cur_next, current_index, it_state,
                                  yielded>>
              ELSE /\ fetches' = fetches + 1
                   /\ Enter(t, "next", timeout, 0, <<>>, cur_next, c)
                   /\ UNCHANGED <<now, configVars, coreVars, credVars, cfgVars>>
       ELSE /\ yielded' = Append(yielded, cur_items[current_index + 1])
            /\ current_index' = current_index + 1
            /\ last_anext' = "item"
            /\ SetCollect(c, "item", cur_items[current_index + 1])
            /\ UNCHANGED <<now, limiterVars, lockVars, taskVars, configVars,
                           coreVars, credVars, cfgVars, callVars, histVars, fetches,
                           cur_items, cur_next, it_state>>

\* the consumer, or the loop of the collect_all in progress, calls __anext__
Anext(t) == AnextFrom(t, collect_all)

\* PaginatedIterator.collect_all(limit), up to the end of its first __anext__
CallCollectAll(t, limit) ==
  /\ collect_all.pc = "off"
  /\ AnextFrom(t, [pc |-> "loop", limit |-> limit, all_items |-> <<>>, count |-> 0])

\* RateLimiter.get_available_tokens
GetAvailableTokens ==
  /\ SetBucket(RefillBucket(Bucket, now))
  /\ UNCHANGED <<now, lockVars, taskVars, configVars, coreVars, credVars, cfgVars, callVars, histVars,
                 iterVars, fetches>>

\* RateLimiter.set_rate_limit(rps)
CallSetRateLimit(rps) ==
  LET b == SetRateLimit(Bucket, rps)
  IN /\ SetBucket(b)
     /\ steady' = FALSE
     /\ admitted' = 0
     /\ availNow' = 0
     /\ admitNow' = 0
     /\ UNCHANGED <<now, lockVars, taskVars, configVars, coreVars, credVars, cfgVars, callVars, iterVars,
                    fetches>>

\* RateLimiter.reset
CallReset ==
  LET b == ResetBucket(Bucket, now)
  IN /\ SetBucket(b)
     /\ steady' = FALSE
     /\ admitted' = 0
     /\ availNow' = 0
     /\ admitNow' = 0
     /\ UNCHANGED <<now, lockVars, taskVars, configVars, coreVars, credVars, cfgVars, callVars, iterVars,
                    fetches>>

\* time passes, up to the horizon of the run
Advance(horizon) ==
  /\ now < horizon
  /\ now' = now + 1
  /\ availNow' = IF steady THEN RefillBucket(Bucket, now + 1).tokens ELSE availNow
  /\ admitNow' = 0
  /\ UNCHANGED <<limiterVars, lockVars, taskVars, configVars, coreVars, credVars, cfgVars, callVars,
                 admitted, steady, iterVars, fetches>>

Max(a, b) == IF a >= b THEN a ELSE b

\* time passes, without end: the limiter reads differences of
\* time.monotonic() only, so the clock's origin moves along and "now" stays;
\* an age beyond what the code can tell apart is kept at that limit (a
\* refill after TicksPerSecond ticks fills the bucket whatever the age, and
\* elapsed times, which only a call with a timeout reads, are followed up
\* to MaxClientTime ticks)
Elapse ==
  /\ ~steady
  /\ last_refill' = Max(last_refill - 1, now - TicksPerSecond)
  /\ start_time' = [t \in Tasks |->
                      IF pc[t] = "idle" \/ acq_timeout[t] = None
                        THEN start_time[t]
                      ELSE Max(start_time[t] - 1, now - MaxClientTime)]
  /\ wake' = [t \in Tasks |-> IF wake[t] > now THEN wake[t] - 1 ELSE wake[t]]
  /\ UNCHANGED <<now, requests_per_second, bucket_capacity, tokens, lockVars,
                 pc, mode, acq_timeout, result, configVars, coreVars, credVars,
                 cfgVars, callVars, histVars, iterVars, fetches>>

\* the event loop has a step of task t to run
Runnable(t) ==
  \/ pc[t] = "sleeping" /\ now >= wake[t]
  \/ pc[t] = "waitlock" /\ lock = NoTask /\ Head(waiters) = t

\* time passes while the event loop has nothing to run
ElapseIdle ==
  /\ \A t \in Tasks : ~Runnable(t)
  /\ Elapse

\* ------------------------------------------------- easel.core CanvasClient
MAX_RETRIES == 3
INITIAL_BACKOFF == 2

\* the str "" and the dict {}
EmptyStr == <<>>
EmptyDict == [k \in {} |-> k]

\* a parsed JSON body: a list of items, or an object with its members
JsonList(items) == [type |-> "list", items |-> items]
JsonObject(members) == [type |-> "dict", items |-> members]

\* "if not response": Python truth value of a parsed JSON list or dict
Falsy(json) == Len(json.items) = 0

\* the body the server answers "GET endpoint?page=n&per_page=..." with
ServerPage(n) ==
  IF cpaging = "ignored" THEN JsonList(cpages[1])
  ELSE IF n <= Len(cpages) THEN JsonList(cpages[n])
  ELSE JsonList(<<>>)

\* what awaiting self._client.request(...) can produce in core CanvasClient
CoreStatusCodes == {200, 204, 404, 429, 500}
CoreOutcomes ==
  [kind : {"response"}, status : {200}, hdr : {"absent"}, body : {"list", "object"}]
  \cup [kind : {"response"}, status : CoreStatusCodes \ {200, 429}, hdr : {"absent"},
        body : {"none"}]
  \cup [kind : {"response"}, status : {429}, hdr : RetryAfterHeaders, body : {"none"}]
  \cup [kind : {"exception"}, status : {None}, hdr : {"absent"}, body : {"none"}]

CoreReturn(json) == [action |-> "return", json |-> json, error |-> "none", delay |-> 0]
CoreRaise(e) == [action |-> "raise", json |-> JsonList(<<>>), error |-> e, delay |-> 0]
CoreSleep(d) == [action |-> "sleep", json |-> JsonList(<<>>), error |-> "none", delay |-> d]

\* a wait that stays at INITIAL_BACKOFF on every attempt
CoreBackoffFlat(att) == INITIAL_BACKOFF

\* "INITIAL_BACKOFF * (2**attempt)", in seconds
CoreBackoff(att) == INITIAL_BACKOFF * Pow2(att)

\* one pass of the "for attempt" loop of core CanvasClient.request, for the
\* outcome o of its HTTP call on attempt att, asking for page: it returns the
\* parsed body, raises, or sleeps and loops
RequestAttempt(o, att, page) ==
  IF o.kind = "exception" THEN CoreRaise("httpx.RequestError")
  ELSE IF IsSuccess(o.status)
    THEN IF o.status = 204 THEN CoreReturn(JsonObject(<<>>))
         ELSE IF o.body = "object" THEN CoreReturn(JsonObject(<<"errors">>))
         ELSE CoreReturn(ServerPage(page))
  ELSE IF o.status = 429 /\ att < MAX_RETRIES
    THEN IF o.hdr # "absent"
           THEN IF IntOf(o.hdr).ok THEN CoreSleep(IntOf(o.hdr).val)
                ELSE CoreRaise("ValueError")
           ELSE CoreSleep(CoreBackoff(att))
  ELSE CoreRaise("httpx.HTTPStatusError")

\* a get_paginated that goes on until a page is empty
PageBodyUntilEmpty(results, response, per) ==
  IF Falsy(response) THEN [done |-> TRUE, all_results |-> results]
  ELSE IF response.type = "list"
    THEN [done |-> FALSE, all_results |-> results \o response.items]
  ELSE [done |-> TRUE, all_results |-> Append(results, response)]

\* the body of the "while True" loop of get_paginated after request()
\* returned response: the new all_results, and whether the loop is left
PageBody(results, response, per) ==
  IF Falsy(response) THEN [done |-> TRUE, all_results |-> results]
  ELSE IF response.type = "list"
    THEN [done |-> Len(response.items) < per,
          all_results |-> results \o response.items]
  ELSE [done |-> TRUE, all_results |-> Append(results, response)]

\* ------------------------------------------------------------ CourseCache
\* str(n) of a non-negative int: its decimal digits
DigitChars == <<"0", "1", "2", "3", "4", "5", "6", "7", "8", "9">>
RECURSIVE Str(_)
Str(n) ==
  IF n < 10 THEN <<DigitChars[n + 1]>>
  ELSE Str(n \div 10) \o <<DigitChars[(n % 10) + 1]>>

\* str(identifier) of a "str | int" argument
StrOf(identifier) ==
  IF identifier.type = "int" THEN Str(identifier.n) ELSE identifier.v

\* val.isdigit()
IsDigit(val) ==
  /\ Len(val) > 0
  /\ \A n \in 1..Len(val) : \E d \in 1..Len(DigitChars) : val[n] = DigitChars[d]

\* val.startswith(prefix)
StartsWith(val, prefix) ==
  Len(val) >= Len(prefix) /\ SubSeq(val, 1, Len(prefix)) = prefix

SisPrefix ==
  <<"s", "i", "s", "_", "c", "o", "u", "r", "s", "e", "_", "i", "d", ":">>

\* str(course.get("id", "")) and course.get("course_code", ""); an id that
\* is missing from the course object is None in the model, a course_code
\* that is missing is the default "" already
CourseId(course) == IF course.id = None THEN EmptyStr ELSE Str(course.id)
CourseCode(course) == course.course_code

\* d[k] = v, and d.get(k), where found = FALSE stands for None
DictSet(d, k, v) == [x \in DOMAIN d \cup {k} |-> IF x = k THEN v ELSE d[x]]
DictGet(d, k) ==
  IF k \in DOMAIN d THEN [found |-> TRUE, v |-> d[k]]
  ELSE [found |-> FALSE, v |-> EmptyStr]

\* the two maps refresh() builds from courses: both cleared, then one entry
\* per direction for every course with a non-empty id and code, in order
RECURSIVE Rebuild(_)
Rebuild(courses) ==
  IF courses = <<>> THEN [code_to_id |-> EmptyDict, id_to_code |-> EmptyDict]
  ELSE LET front == Rebuild(SubSeq(courses, 1, Len(courses) - 1))
           cid == CourseId(courses[Len(courses)])
           code == CourseCode(courses[Len(courses)])
       IN IF cid # EmptyStr /\ code # EmptyStr
            THEN [code_to_id |-> DictSet(front.code_to_id, code, cid),
                  id_to_code |-> DictSet(front.id_to_code, cid, code)]
            ELSE front

\* a resolve that refreshes whenever the identifier is not in the map
ResolveLocalAlwaysRefresh(val, c2i) ==
  IF IsDigit(val) THEN [out |-> "return", value |-> val]
  ELSE IF StartsWith(val, SisPrefix) THEN [out |-> "return", value |-> val]
  ELSE IF val \in DOMAIN c2i THEN [out |-> "return", value |-> c2i[val]]
  ELSE [out |-> "refresh", value |-> val]

\* resolve() up to its first return or its "await self.refresh()"
ResolveLocal(val, c2i) ==
  IF IsDigit(val) THEN [out |-> "return", value |-> val]
  ELSE IF StartsWith(val, SisPrefix) THEN [out |-> "return", value |-> val]
  ELSE IF val \in DOMAIN c2i THEN [out |-> "return", value |-> c2i[val]]
  ELSE IF DOMAIN c2i = {} THEN [out |-> "refresh", value |-> val]
  ELSE [out |-> "return", value |-> SisPrefix \o val]

ResolveAfterRefreshUnscoped(val, c2i) ==
  IF val \in DOMAIN c2i THEN c2i[val] ELSE val

\* resolve() after its refresh() returned
ResolveAfterRefresh(val, c2i) ==
  IF val \in DOMAIN c2i THEN c2i[val] ELSE SisPrefix \o val

\* ---------------------------------------------------- easel.core actions
\* the page counter of get_paginated, the results it gathers and its log
\* are followed up to this page; the loop goes on beyond it, the results and
\* the log left as they were and the counter keeping its parity only
MaxPageNo == MaxPages + 2
NextPageNo(page) == IF page <= MaxPageNo THEN page + 1 ELSE MaxPageNo

NoCoreResult ==
  [op |-> "none", arg |-> EmptyStr, out |-> "none", value |-> <<>>, error |-> "none"]

\* a refresh() that clears the maps before it awaits the listing
RefreshEntryCleared(maps) == [code_to_id |-> EmptyDict, id_to_code |-> EmptyDict]

\* the maps while refresh() awaits get_paginated: the clear() calls come
\* after the await
RefreshEntry(maps) == maps

CacheMaps == [code_to_id |-> code_to_id, id_to_code |-> id_to_code]

SetMaps(maps) ==
  /\ code_to_id' = maps.code_to_id
  /\ id_to_code' = maps.id_to_code

\* history: a call is made with argument val; for resolve, whether val is a
\* key of the forward map and whether that map is empty at this moment
CallEntry(val) == <<"call", val \in DOMAIN code_to_id, DOMAIN code_to_id = {}>>

\* history: the body a request() of task t returned is recorded for a direct
\* get_paginated call
WithBody(t, lg, json) ==
  IF cop[t] = "get_paginated" THEN Append(lg, <<"page", json>>) ELSE lg

\* the locals of the core operation of task t are dropped, r is its outcome
CoreFinish(t, r, lg, rl) ==
  /\ rlog' = [rlog EXCEPT ![t] = rl]
  /\ cpc' = [cpc EXCEPT ![t] = "idle"]
  /\ cresult' = [cresult EXCEPT ![t] = r]
  /\ clog' = [clog EXCEPT ![t] = lg]
  /\ cattempt' = [cattempt EXCEPT ![t] = 0]
  /\ cpage' = [cpage EXCEPT ![t] = 0]
  /\ all_results' = [all_results EXCEPT ![t] = <<>>]

\* task t enters get_paginated for operation op: page = 1, first request()
CoreStart(t, op, val, lg) ==
  /\ cpc' = [cpc EXCEPT ![t] = "http"]
  /\ cop' = [cop EXCEPT ![t] = op]
  /\ cident' = [cident EXCEPT ![t] = val]
  /\ cattempt' = [cattempt EXCEPT ![t] = 0]
  /\ cpage' = [cpage EXCEPT ![t] = 1]
  /\ all_results' = [all_results EXCEPT ![t] = <<>>]
  /\ clog' = [clog EXCEPT ![t] = Append(lg, <<"request", 1, per_page>>)]
  /\ cresult' = [cresult EXCEPT ![t] = NoCoreResult]
  /\ rlog' = [rlog EXCEPT ![t] = <<>>]

\* CanvasClient.get_paginated(endpoint, per_page=per_page)
CallGetPaginated(t) ==
  /\ cpc[t] = "idle"
  /\ CoreStart(t, "get_paginated", EmptyStr, <<CallEntry(EmptyStr)>>)
  /\ UNCHANGED <<apiVars, credVars, cfgVars, cpages, cpaging, per_page, code_to_id,
                 id_to_code, lookup, snapshot>>

\* a refresh() whose clear() calls come before "await get_paginated"
CallRefreshClearFirst(t) ==
  /\ cpc[t] = "idle"
  /\ CoreStart(t, "refresh", EmptyStr, <<CallEntry(EmptyStr), <<"refresh">>>>)
  /\ SetMaps(RefreshEntryCleared(CacheMaps))
  /\ UNCHANGED <<apiVars, credVars, cfgVars, cpages, cpaging, per_page, lookup, snapshot>>

\* CourseCache.refresh(), up to its await
CallRefresh(t) ==
  /\ cpc[t] = "idle"
  /\ CoreStart(t, "refresh", EmptyStr, <<CallEntry(EmptyStr), <<"refresh">>>>)
  /\ SetMaps(RefreshEntry(CacheMaps))
  /\ UNCHANGED <<apiVars, credVars, cfgVars, cpages, cpaging, per_page, lookup, snapshot>>

\* CourseCache.resolve(identifier), up to its return or its await
CallResolve(t, identifier) ==
  /\ cpc[t] = "idle"
  /\ LET val == StrOf(identifier)
         r == ResolveLocal(val, code_to_id)
         lg == <<CallEntry(val)>>
     IN IF r.out = "return"
          THEN /\ CoreFinish(t, [op |-> "resolve", arg |-> val, out |-> "return",
                                 value |-> r.value, error |-> "none"], lg, <<>>)
               /\ cop' = [cop EXCEPT ![t] = "resolve"]
               /\ cident' = [cident EXCEPT ![t] = val]
               /\ UNCHANGED <<code_to_id, id_to_code>>
          ELSE /\ CoreStart(t, "resolve", val, Append(lg, <<"refresh">>))
               /\ SetMaps(RefreshEntry(CacheMaps))
  /\ UNCHANGED <<apiVars, credVars, cfgVars, cpages, cpaging, per_page, lookup, snapshot>>

\* get_paginated of task t returns res to the operation that called it
PaginatedReturn(t, lg, res, rl) ==
  LET val == cident[t]
      maps == Rebuild(res)
      done == Append(lg, <<"rebuild">>)
  IN IF cop[t] = "get_paginated"
       THEN /\ CoreFinish(t, [op |-> "get_paginated", arg |-> val, out |-> "return",
                              value |-> res, error |-> "none"], lg, rl)
            /\ UNCHANGED <<code_to_id, id_to_code, snapshot>>
       ELSE /\ SetMaps(maps)
            /\ snapshot' = maps
            /\ IF cop[t] = "refresh"
                 THEN CoreFinish(t, [op |-> "refresh", arg |-> val, out |-> "return",
                                     value |-> <<>>, error |-> "none"], done, rl)
                 ELSE CoreFinish(t, [op |-> "resolve", arg |-> val, out |-> "return",
                                     value |-> ResolveAfterRefresh(val, maps.code_to_id),
                                     error |-> "none"], done, rl)

\* "await self._client.request(...)" of task t completes with outcome o
CoreHttpReturn(t, o) ==
  /\ cpc[t] = "http"
  /\ LET a == RequestAttempt(o, cattempt[t], cpage[t])
         lg == clog[t]
         rl == Append(rlog[t], <<"http", cattempt[t], o>>)
         b == PageBody(all_results[t], a.json, per_page)
         followed == cpage[t] < MaxPageNo
     IN CASE a.action = "sleep" ->
               /\ cpc' = [cpc EXCEPT ![t] = "sleep"]
               /\ rlog' = [rlog EXCEPT ![t] = Append(rl, <<"sleep", a.delay>>)]
               /\ UNCHANGED <<cattempt, cpage, all_results, cresult, code_to_id,
                              id_to_code, snapshot, clog>>
          [] a.action = "raise" ->
               /\ CoreFinish(t, [op |-> cop[t], arg |-> cident[t], out |-> "raise",
                                 value |-> <<>>, error |-> a.error], lg, rl)
               /\ UNCHANGED <<code_to_id, id_to_code, snapshot>>
          [] a.action = "return" /\ b.done ->
               PaginatedReturn(t, WithBody(t, lg, a.json), b.all_results, rl)
          [] a.action = "return" /\ ~b.done ->
               /\ cattempt' = [cattempt EXCEPT ![t] = 0]
               /\ rlog' = [rlog EXCEPT ![t] = <<>>]
               /\ cpage' = [cpage EXCEPT ![t] = NextPageNo(cpage[t])]
               /\ IF followed
                  THEN /\ all_results' = [all_results EXCEPT ![t] = b.all_results]
                       /\ clog' = [clog EXCEPT ![t] =
                                     Append(WithBody(t, lg, a.json),
                                            <<"request", cpage[t] + 1, per_page>>)]
                  ELSE UNCHANGED <<all_results, clog>>
               /\ UNCHANGED <<cpc, cresult, code_to_id, id_to_code, snapshot>>
  /\ UNCHANGED <<apiVars, credVars, cfgVars, cpages, cpaging, per_page, cop, cident, lookup>>

\* "await asyncio.sleep(wait)" of request() is over: next attempt
CoreWake(t) ==
  /\ cpc[t] = "sleep"
  /\ cpc' = [cpc EXCEPT ![t] = "http"]
  /\ cattempt' = [cattempt EXCEPT ![t] = cattempt[t] + 1]
  /\ UNCHANGED <<apiVars, credVars, cfgVars, cpages, cpaging, per_page, cop, cident, cpage,
                 all_results, cresult, code_to_id, id_to_code, lookup, clog,
                 rlog, snapshot>>

\* CourseCache.get_id(course_code)
GetId(course_code) ==
  /\ lookup' = [fn |-> "get_id", arg |-> course_code,
                out |-> DictGet(code_to_id, course_code),
                during |-> \E t \in Tasks : cpc[t] # "idle"]
  /\ UNCHANGED <<apiVars, credVars, cfgVars, cpages, cpaging, per_page, cpc, cop, cident,
                 cattempt, cpage, all_results, cresult, code_to_id, id_to_code,
                 clog, rlog, snapshot>>

\* CourseCache.get_code(course_id)
GetCode(course_id) ==
  /\ lookup' = [fn |-> "get_code", arg |-> StrOf(course_id),
                out |-> DictGet(id_to_code, StrOf(course_id)),
                during |-> \E t \in Tasks : cpc[t] # "idle"]
  /\ UNCHANGED <<apiVars, credVars, cfgVars, cpages, cpaging, per_page, cpc, cop, cident,
                 cattempt, cpage, all_results, cresult, code_to_id, id_to_code,
                 clog, rlog, snapshot>>

\* the course listing on the server changes, between two calls
ServerChange(pgs) ==
  /\ \A t \in Tasks : cpc[t] = "idle"
  /\ cpages # pgs
  /\ cpages' = pgs
  /\ UNCHANGED <<apiVars, credVars, cfgVars, cpaging, per_page, cpc, cop, cident, cattempt,
                 cpage, all_results, cresult, code_to_id, id_to_code, lookup,
                 clog, rlog, snapshot>>

\* ------------------------------------------------------ CredentialManager
\* instance names and API tokens; a token is a str
Instances == {"prod", "test"}
Tokens == {"tokA", "tokB"}

\* get_token's None, and the history's "no token stored"
NoToken == "None"

NoCredResult == [op |-> "none", instance |-> "none", out |-> "none", value |-> "none"]
CredResult(op, i, out, v) == [op |-> op, instance |-> i, out |-> out, value |-> v]

\* Fernet: a token names its key and its plaintext; decryption under another
\* key, or of a text that is no token, fails (InvalidToken)
Encrypt(key, token) == [key |-> key, plain |-> token]
Garbage == [key |-> 0, plain |-> "garbage"]
EmptyText == [key |-> 0, plain |-> ""]
Decrypts(key, text) == text.key = key /\ text.key # 0
Decrypt(key, text) == text.plain

\* the credentials file: missing, or a YAML mapping instance -> ciphertext
NoFile == [exists |-> FALSE, data |-> EmptyDict]
FileOf(data) == [exists |-> TRUE, data |-> data]
LoadCredentials == credentials_file.data

\* keyring.get_password: the stored key, None without one; "raises" is the
\* keyring being down
KeyringGet == IF keyring_up THEN keyring_key ELSE None

\* _load_key_from_file
LoadKeyFromFile == key_file

\* _get_encryption_key: the key it returns and what it leaves in the keyring
\* and in the key file
GetEncryptionKey ==
  IF KeyringGet # None
  THEN [key |-> KeyringGet, generated |-> FALSE, keyring |-> keyring_key,
        file |-> key_file]
  ELSE [key |-> next_key, generated |-> TRUE,
        keyring |-> IF keyring_up THEN next_key ELSE keyring_key,
        file |-> IF keyring_up THEN key_file ELSE next_key]

\* get_token: keyring first, then the key file
GetTokenKey == IF KeyringGet # None THEN KeyringGet ELSE LoadKeyFromFile

\* get_token: what it returns or raises
GetTokenOutcome(i) ==
  IF ~credentials_file.exists THEN [out |-> "return", value |-> NoToken]
  ELSE IF i \notin DOMAIN LoadCredentials \/ LoadCredentials[i] = EmptyText
  THEN [out |-> "return", value |-> NoToken]
  ELSE IF GetTokenKey = None
  THEN [out |-> "raise", value |-> "CredentialDecryptionError"]
  ELSE IF ~Decrypts(GetTokenKey, LoadCredentials[i])
  THEN [out |-> "raise", value |-> "CredentialDecryptionError"]
  ELSE [out |-> "return", value |-> Decrypt(GetTokenKey, LoadCredentials[i])]

credFiles == <<keyring_key, key_file, credentials_file, next_key>>

\* store_token as called, by the user or by save_config
StoreTokenCall(i, token) ==
  LET k == GetEncryptionKey
  IN /\ k.generated => next_key <= MaxKeys
     /\ keyring_key' = k.keyring
     /\ key_file' = k.file
     /\ next_key' = IF k.generated THEN next_key + 1 ELSE next_key
     /\ credentials_file' = FileOf(DictSet(LoadCredentials, i, Encrypt(k.key, token)))
     /\ cred_result' = CredResult("store_token", i, "return", NoToken)
     /\ stored' = [stored EXCEPT ![i] = token]
     /\ UNCHANGED keyring_up

StoreToken(i, token) ==
  /\ StoreTokenCall(i, token)
  /\ UNCHANGED <<apiVars, coreVars, cfgVars>>

GetToken(i) ==
  /\ cred_result' = CredResult("get_token", i, GetTokenOutcome(i).out,
                               GetTokenOutcome(i).value)
  /\ UNCHANGED <<keyring_up, credFiles, stored, apiVars, coreVars, cfgVars>>

RemoveToken(i) ==
  /\ IF credentials_file.exists /\ i \in DOMAIN LoadCredentials
     THEN /\ credentials_file' =
               FileOf([j \in DOMAIN LoadCredentials \ {i} |-> LoadCredentials[j]])
          /\ cred_result' = CredResult("remove_token", i, "return", "True")
          /\ stored' = [stored EXCEPT ![i] = NoToken]
     ELSE /\ cred_result' = CredResult("remove_token", i, "return", "False")
          /\ UNCHANGED <<credentials_file, stored>>
  /\ UNCHANGED <<keyring_up, keyring_key, key_file, next_key,
                 apiVars, coreVars, cfgVars>>

ListStoredInstances ==
  IF credentials_file.exists THEN DOMAIN LoadCredentials ELSE {}

HasCredentials(i) ==
  /\ cred_result' = CredResult("has_credentials", i, "return",
                               IF i \in ListStoredInstances THEN "True" ELSE "False")
  /\ UNCHANGED <<keyring_up, credFiles, stored, apiVars, coreVars, cfgVars>>

\* the OS keyring becomes unavailable (no session bus, locked) or available
KeyringChange ==
  /\ keyring_up' = ~keyring_up
  /\ UNCHANGED <<credFiles, cred_result, stored, apiVars, coreVars, cfgVars>>

\* the stored ciphertext of an instance is damaged on disk
Corrupt(i, text) ==
  /\ credentials_file.exists /\ i \in DOMAIN LoadCredentials
  /\ LoadCredentials[i] # text
  /\ credentials_file' = FileOf(DictSet(LoadCredentials, i, text))
  /\ UNCHANGED <<keyring_up, keyring_key, key_file, next_key, cred_result,
                 stored, apiVars, coreVars, cfgVars>>

\* ---------------------------------------------------------- ConfigManager
\* the empty string, a str that tests false like None
EmptyToken == ""
TruthyToken(token) == token # NoToken /\ token # EmptyToken

\* an EaselConfig, as far as its canvas.name and canvas.api_token go
Configs == [name : Instances, api_token : Tokens \cup {NoToken}]

NoConfigFile == [exists |-> FALSE, name |-> "none", api_token |-> NoToken]
NoCfgResult ==
  [op |-> "none", out |-> "none", name |-> "none", api_token |-> NoToken,
   env_read |-> FALSE]

ConfigCopyWithToken(config) == config

\* save_config: config_copy, its api_token set to None
ConfigCopy(config) == [config EXCEPT !.api_token = NoToken]

\* model_dump(exclude_none=True) written by yaml.dump: a None api_token leaves
\* no api_token key in the file
ModelDump(config) ==
  [exists |-> TRUE, name |-> config.name, api_token |-> config.api_token]

SaveConfig(config, store_token) ==
  /\ config_file' = ModelDump(ConfigCopy(config))
  /\ IF store_token /\ TruthyToken(config.api_token)
     THEN StoreTokenCall(config.name, config.api_token)
     ELSE UNCHANGED credVars
  /\ cfg_result' = [op |-> "save_config", out |-> "return", name |-> config.name,
                    api_token |-> NoToken, env_read |-> FALSE]
  /\ UNCHANGED <<env_token, apiVars, coreVars>>

\* get_token_from_env
GetTokenFromEnv == env_token

\* load_config: what it returns (the name and the token of the config) or
\* raises, and whether it read the environment variable
LoadConfigOutcome ==
  IF ~config_file.exists
  THEN [op |-> "load_config", out |-> "ConfigNotFoundError", name |-> "none",
        api_token |-> NoToken, env_read |-> FALSE]
  ELSE LET g == GetTokenOutcome(config_file.name)
       IN IF g.out = "raise"
          THEN [op |-> "load_config", out |-> g.value, name |-> config_file.name,
                api_token |-> NoToken, env_read |-> FALSE]
          ELSE LET env_read == ~TruthyToken(g.value)
                   api_token == IF env_read THEN GetTokenFromEnv ELSE g.value
               IN [op |-> "load_config", out |-> "return",
                   name |-> config_file.name,
                   api_token |-> IF TruthyToken(api_token) THEN api_token
                                 ELSE config_file.api_token,
                   env_read |-> env_read]

LoadConfig ==
  /\ cfg_result' = LoadConfigOutcome
  /\ IF config_file.exists
     THEN cred_result' = CredResult("get_token", config_file.name,
                                    GetTokenOutcome(config_file.name).out,
                                    GetTokenOutcome(config_file.name).value)
     ELSE UNCHANGED cred_result
  /\ UNCHANGED <<keyring_up, credFiles, stored, config_file, env_token,
                 apiVars, coreVars>>

\* the environment the program runs in sets or unsets CANVAS_API_TOKEN
SetEnv(token) ==
  /\ env_token # token
  /\ env_token' = token
  /\ UNCHANGED <<credVars, config_file, cfg_result, apiVars, coreVars>>

ConfigInit ==
  /\ config_file = NoConfigFile
  /\ env_token = NoToken
  /\ cfg_result = NoCfgResult

\* --------------------------------------------------------- specifications
\* the state after RateLimiter(rps) and CanvasClient(..., max_retries=maxr,
\* timeout=tmo) are constructed, no task started
ApiInit(rps, maxr, tmo, st, pgs) ==
  LET b == NewBucket(rps, 0)
  IN /\ now = 0
     /\ requests_per_second = b.rate
     /\ bucket_capacity = b.cap
     /\ tokens = b.tokens
     /\ last_refill = b.last
     /\ lock = NoTask
     /\ waiters = <<>>
     /\ pc = [t \in Tasks |-> "idle"]
     /\ mode = [t \in Tasks |-> "acquire"]
     /\ start_time = [t \in Tasks |-> 0]
     /\ acq_timeout = [t \in Tasks |-> None]
     /\ wake = [t \in Tasks |-> 0]
     /\ result = [t \in Tasks |-> NoResult]
     /\ max_retries = maxr
     /\ timeout = tmo
     /\ attempt = [t \in Tasks |-> 0]
     /\ log = [t \in Tasks |-> <<>>]
     /\ req_url = [t \in Tasks |-> None]
     /\ pages = pgs
     /\ cur_items = <<>>
     /\ cur_next = None
     /\ current_index = 0
     /\ it_state = "none"
     /\ last_anext = "none"
     /\ yielded = <<>>
     /\ collect_all = NotCollecting
     /\ collected = NothingCollected
     /\ fetches = 0
     /\ admitted = 0
     /\ steady = st
     /\ availNow = IF st THEN b.tokens ELSE 0
     /\ admitNow = 0

\* core CanvasClient(config) and CourseCache(client) are constructed, the
\* server holds the pages pgs; no task started
CoreInit(pgs, paging, per) ==
  /\ cpages = pgs
  /\ cpaging = paging
  /\ per_page = per
  /\ cpc = [t \in Tasks |-> "idle"]
  /\ cop = [t \in Tasks |-> "none"]
  /\ cident = [t \in Tasks |-> EmptyStr]
  /\ cattempt = [t \in Tasks |-> 0]
  /\ cpage = [t \in Tasks |-> 0]
  /\ all_results = [t \in Tasks |-> <<>>]
  /\ cresult = [t \in Tasks |-> NoCoreResult]
  /\ code_to_id = EmptyDict
  /\ id_to_code = EmptyDict
  /\ lookup = [fn |-> "none", arg |-> EmptyStr, out |-> DictGet(EmptyDict, EmptyStr),
               during |-> FALSE]
  /\ clog = [t \in Tasks |-> <<>>]
  /\ rlog = [t \in Tasks |-> <<>>]
  /\ snapshot = [code_to_id |-> EmptyDict, id_to_code |-> EmptyDict]

\* CredentialManager() on a machine with nothing stored yet
CredInit(up) ==
  /\ keyring_up = up
  /\ keyring_key = None
  /\ key_file = None
  /\ credentials_file = NoFile
  /\ next_key = 1
  /\ cred_result = NoCredResult
  /\ stored = [i \in Instances |-> NoToken]
  /\ ConfigInit

\* one CredentialManager over a keyring that is available or not from the
\* start, and over no files yet
InitCred ==
  \E up \in BOOLEAN :
    /\ ApiInit(One, 0, TicksPerSecond, TRUE, <<>>)
    /\ CoreInit(<<<<>>>>, "paged", 1)
    /\ CredInit(up)

NextCred ==
  \/ \E i \in Instances, token \in Tokens : StoreToken(i, token)
  \/ \E i \in Instances : GetToken(i)
  \/ \E i \in Instances : RemoveToken(i)
  \/ \E i \in Instances : HasCredentials(i)
  \/ KeyringChange

SpecCred == InitCred /\ [][NextCred]_vars

\* the same, with the credentials file damaged from outside
NextTamper ==
  \/ NextCred
  \/ \E i \in Instances, text \in {Garbage, EmptyText} : Corrupt(i, text)

SpecTamper == InitCred /\ [][NextTamper]_vars

\* a ConfigManager with its CredentialManager: configurations saved and
\* loaded, tokens stored (the empty string among them) and removed, the
\* environment variable set and unset
NextConfig ==
  \/ \E config \in Configs, store_token \in BOOLEAN : SaveConfig(config, store_token)
  \/ LoadConfig
  \/ \E token \in Tokens \cup {NoToken} : SetEnv(token)
  \/ \E i \in Instances, token \in Tokens \cup {EmptyToken} : StoreToken(i, token)
  \/ \E i \in Instances : RemoveToken(i)
  \/ KeyringChange

SpecConfig == InitCred /\ [][NextConfig]_vars

InitWith(rps, maxr, tmo, st, pgs) ==
  /\ ApiInit(rps, maxr, tmo, st, pgs)
  /\ CoreInit(<<<<>>>>, "paged", 1)
  /\ CredInit(TRUE)

\* the limiter alone, called directly by concurrent tasks
InitLimiter == \E rps \in Rates : InitWith(rps, 0, None, FALSE, <<>>)

NextLimiter ==
  \/ \E t \in Tasks, tmo \in AcquireTimeouts : CallAcquire(t, tmo)
  \/ \E t \in Tasks : LockGranted(t)
  \/ \E t \in Tasks : LimiterWake(t)
  \/ GetAvailableTokens
  \/ \E rps \in Rates : CallSetRateLimit(rps)
  \/ CallReset
  \/ Advance(MaxTime)

SpecLimiter == InitLimiter /\ [][NextLimiter]_vars

\* concurrent acquire() calls, each step run as soon as it can be
NextTimed ==
  \/ \E t \in Tasks, tmo \in AcquireTimeouts : CallAcquire(t, tmo)
  \/ \E t \in Tasks : LockGranted(t)
  \/ \E t \in Tasks : LimiterWake(t)
  \/ ElapseIdle

SpecTimed == InitLimiter /\ [][NextTimed]_vars

\* a limiter of at least one request per second, with time going on and
\* every task that can run being run in the end
InitProgress ==
  \E rps \in {r \in Rates : r * TicksPerSecond >= One} :
    InitWith(rps, 0, None, FALSE, <<>>)

NextProgress ==
  \/ \E t \in Tasks, tmo \in AcquireTimeouts : CallAcquire(t, tmo)
  \/ \E t \in Tasks : LockGranted(t)
  \/ \E t \in Tasks : LimiterWake(t)
  \/ Elapse

SpecProgress ==
  /\ InitProgress
  /\ [][NextProgress]_vars
  /\ WF_vars(Elapse)
  /\ \A t \in Tasks : WF_vars(LockGranted(t)) /\ WF_vars(LimiterWake(t))

\* the limiter from a full bucket, with no set_rate_limit and no reset
InitSteady == \E rps \in Rates : InitWith(rps, 0, None, TRUE, <<>>)

NextSteady ==
  \/ \E t \in Tasks, tmo \in AcquireTimeouts : CallAcquire(t, tmo)
  \/ \E t \in Tasks : LockGranted(t)
  \/ \E t \in Tasks : LimiterWake(t)
  \/ GetAvailableTokens
  \/ Advance(MaxTime)

SpecSteady == InitSteady /\ [][NextSteady]_vars

\* rate_limit and timeout arguments of CanvasClient, in model units
ClientRates == {2, 4}
ClientTimeouts == {2}

\* logical calls of one CanvasClient: task Caller runs _make_request, the
\* other tasks stand for the concurrent calls of the same client, which act
\* on the Caller only through rate_limiter.acquire(timeout=self.timeout)
Caller == CHOOSE t \in Tasks : \A u \in Tasks : t <= u
Contender == CHOOSE t \in Tasks \ {Caller} : \A u \in Tasks \ {Caller} : t <= u

Init ==
  \E rps \in ClientRates, maxr \in 0..MaxRetriesBound, tmo \in ClientTimeouts :
    InitWith(rps, maxr, tmo, TRUE, <<>>)

Next ==
  \/ CallMakeRequest(Caller)
  \/ CallAcquire(Contender, timeout)
  \/ \E t \in Tasks : LockGranted(t)
  \/ \E t \in Tasks : LimiterWake(t)
  \/ \E t \in Tasks, o \in Outcomes : HttpReturn(t, o)
  \/ \E t \in Tasks : BackoffWake(t)
  \/ Advance(MaxClientTime)

Spec == Init /\ [][Next]_vars

\* one call at a time with max_retries = 0, answered by every status code
AllStatusCodes == 100..599
AllOutcomes ==
  [kind : {"response"}, status : AllStatusCodes, hdr : RetryAfterHeaders, err : {"none"}]
  \cup [kind : {"exception"}, status : {None}, hdr : {"absent"}, err : TransportErrors]

InitClassify == InitWith(One, 0, TicksPerSecond, TRUE, <<>>)

NextClassify ==
  \/ CallMakeRequest(Caller)
  \/ \E o \in AllOutcomes : HttpReturn(Caller, o)

SpecClassify == InitClassify /\ [][NextClassify]_vars

\* the listings a server may hold: 1..MaxPages pages of 0..MaxPageSize items;
\* item j of page i is <<i, j>>; every page but the last carries the Link
\* header Canvas sends, with a rel="next" link to the following page
PageItems(i, n) == [j \in 1..n |-> <<i, j>>]
Piece(u, r) == [url |-> u, rel |-> r, ok |-> TRUE]
PageLink(i, k) ==
  IF i < k
    THEN <<Piece(i, "current"), Piece(i + 1, "next"), Piece(1, "first"), Piece(k, "last")>>
    ELSE <<>>
Listings ==
  UNION {{[i \in 1..k |-> [items |-> PageItems(i, sz[i]), link |-> PageLink(i, k)]] :
            sz \in [1..k -> 0..MaxPageSize]} : k \in 1..MaxPages}

\* what the server answers a page request with
PagerOutcomes ==
  [kind : {"response"}, status : {200, 404}, hdr : {"absent"}, err : {"none"}]
  \cup [kind : {"exception"}, status : {None}, hdr : {"absent"},
        err : {"httpx.TimeoutException"}]

\* one consumer draining a PaginatedIterator over a listing
InitPager == \E pgs \in Listings : InitWith(One, 1, TicksPerSecond, TRUE, pgs)

NextPager ==
  \/ ListFirstPage(Caller)
  \/ Anext(Caller)
  \/ \E t \in Tasks : LimiterWake(t)
  \/ \E t \in Tasks, o \in PagerOutcomes : HttpReturn(t, o)
  \/ \E t \in Tasks : BackoffWake(t)
  \/ Advance(MaxTime)

SpecPager == InitPager /\ [][NextPager]_vars

\* the pages a server may answer get_paginated with: 1..MaxPages pages of
\* 0..MaxPageSize items each, whatever per_page asks for
CounterListings ==
  UNION {{[i \in 1..k |-> PageItems(i, sz[i])] : sz \in [1..k -> 0..MaxPageSize]} :
           k \in 1..MaxPages}

\* one get_paginated call at a time against such a server
InitCounter ==
  \E pgs \in CounterListings, paging \in {"paged", "ignored"}, per \in 1..MaxPageSize :
    /\ ApiInit(One, 0, TicksPerSecond, TRUE, <<>>)
    /\ CoreInit(pgs, paging, per)
    /\ CredInit(TRUE)

\* the answers of that server: the 429s carry no, a numeric or a textual
\* Retry-After
CounterOutcomes == {o \in CoreOutcomes : o.hdr \in {"absent", "2", "soon"}}

NextCounter ==
  \/ CallGetPaginated(Caller)
  \/ \E o \in CounterOutcomes : CoreHttpReturn(Caller, o)
  \/ CoreWake(Caller)

SpecCounter == InitCounter /\ [][NextCounter]_vars

\* the course objects a listing may hold: id is an int or missing,
\* course_code a str or missing
CourseCodes == {<<"A">>, <<"1">>}
Courses ==
  {[id |-> 1, course_code |-> <<"A">>], [id |-> 2, course_code |-> <<"A">>],
   [id |-> 2, course_code |-> <<"1">>], [id |-> None, course_code |-> <<"A">>],
   [id |-> 1, course_code |-> EmptyStr]}
CourseListings ==
  UNION {[1..k -> Courses] : k \in 0..MaxCourses}

\* the pages the server cuts a listing into for per_page = per
PagesOf(listing, per) ==
  IF listing = <<>> THEN <<<<>>>>
  ELSE [n \in 1..((Len(listing) + per - 1) \div per) |->
          SubSeq(listing, (n - 1) * per + 1, Min(n * per, Len(listing)))]

\* the arguments resolve, get_id and get_code are called with
IntIdentifiers == {[type |-> "int", n |-> 12]}
StrIdentifiers ==
  {[type |-> "str", v |-> v] :
     v \in {EmptyStr, <<"A">>, <<"1">>, <<"B">>, SisPrefix \o <<"A">>,
            SubSeq(SisPrefix, 1, Len(SisPrefix) - 1)}}
Identifiers == IntIdentifiers \cup StrIdentifiers

\* the listing call of refresh() is answered with the page or with an error
CacheOutcomes ==
  {o \in CoreOutcomes : (o.status = 200 /\ o.body = "list") \/ o.status = 500}

\* one task calling refresh and resolve on a new CourseCache, while the
\* listing on the server changes between the calls
InitCache ==
  \E listing \in CourseListings, per \in 1..MaxCourses :
    /\ ApiInit(One, 0, TicksPerSecond, TRUE, <<>>)
    /\ CoreInit(PagesOf(listing, per), "paged", per)
    /\ CredInit(TRUE)

NextCache ==
  \/ CallRefresh(Caller)
  \/ \E identifier \in Identifiers : CallResolve(Caller, identifier)
  \/ \E o \in CacheOutcomes : CoreHttpReturn(Caller, o)
  \/ \E listing \in CourseListings : ServerChange(PagesOf(listing, per_page))

SpecCache == InitCache /\ [][NextCache]_vars

\* listings in which every course has an id and a code of its own
DistinctListings ==
  {listing \in CourseListings :
     /\ \A k \in 1..Len(listing) :
          listing[k].id # None /\ listing[k].course_code # EmptyStr
     /\ \A k, l \in 1..Len(listing) :
          k # l => /\ listing[k].id # listing[l].id
                   /\ listing[k].course_code # listing[l].course_code}

\* tasks sharing one CourseCache: refresh and resolve calls in flight
\* together, and readers running in between
InitReaders ==
  \E listing \in DistinctListings :
    /\ ApiInit(One, 0, TicksPerSecond, TRUE, <<>>)
    /\ CoreInit(PagesOf(listing, 1), "paged", 1)
    /\ CredInit(TRUE)

NextReaders ==
  \/ CallRefresh(Contender)
  \/ \E identifier \in Identifiers : CallResolve(Caller, identifier)
  \/ \E t \in Tasks, o \in CacheOutcomes : CoreHttpReturn(t, o)
  \/ \E code \in CourseCodes : GetId(code)
  \/ \E identifier \in IntIdentifiers \cup {[type |-> "int", n |-> 1]} :
       GetCode(identifier)
  \/ \E listing \in DistinctListings : ServerChange(PagesOf(listing, per_page))

SpecReaders == InitReaders /\ [][NextReaders]_vars

\* a server that answers every page request with 200 and the list it holds
\* for that page
SuccessOutcomes == {o \in CoreOutcomes : o.status = 200 /\ o.body = "list"}

NextDrain ==
  \/ CallGetPaginated(Caller)
  \/ \E o \in SuccessOutcomes : CoreHttpReturn(Caller, o)

\* every request get_paginated awaits is answered in the end
SpecDrain ==
  /\ InitCounter
  /\ [][NextDrain]_vars
  /\ WF_vars(\E o \in SuccessOutcomes : CoreHttpReturn(Caller, o))

\* limit arguments of collect_all
CollectLimits == {None} \cup (0..MaxPageSize + 1)

\* a consumer that drains the sequence by __anext__ and collect_all calls
NextCollect ==
  \/ ListFirstPage(Caller)
  \/ Anext(Caller)
  \/ \E limit \in CollectLimits : CallCollectAll(Caller, limit)
  \/ \E t \in Tasks : LimiterWake(t)
  \/ \E t \in Tasks, o \in PagerOutcomes : HttpReturn(t, o)
  \/ \E t \in Tasks : BackoffWake(t)
  \/ Advance(MaxTime)

SpecCollect == InitPager /\ [][NextCollect]_vars

TypeOK ==
  /\ now \in 0..MaxClientTime
  /\ tokens \in 0..bucket_capacity
  /\ last_refill \in (0 - TicksPerSecond)..now
  /\ lock \in Tasks \cup {NoTask}
  /\ pc \in [Tasks -> {"idle", "waitlock", "sleeping", "http", "backoff"}]

\* ----------------------------------------------------------------- claims
Done(t) == pc[t] = "idle" /\ result[t].err # "pending"
InLoop(t) == pc[t] = "sleeping"

\* C1: whatever acquire(), get_available_tokens(), set_rate_limit() and
\* reset() calls were made and however much time passed between them, the
\* token count is never negative and never above the bucket capacity.
C1_TokenInvariant == 0 <= tokens /\ tokens <= bucket_capacity

\* a rate change or reset happened, a task was admitted, another one sleeps
\* in the loop, and the bucket is neither empty nor full
C1_Witness ==
  /\ ~steady /\ now > 0
  /\ 0 < tokens /\ tokens < bucket_capacity
  /\ \E t, u \in Tasks : Done(t) /\ result[t].err = "none" /\ InLoop(u)

\* C2: the loop of acquire() runs under the limiter's lock: at most one
\* task is inside it and that task holds the lock, nobody holding the lock
\* queues for it, and while the clock stands still no more callers are
\* admitted than there were whole tokens.
C2_MutualExclusion ==
  /\ \A t, u \in Tasks : (InLoop(t) /\ InLoop(u)) => t = u
  /\ \A t \in Tasks : InLoop(t) <=> lock = t
  /\ \A i \in 1..Len(waiters) : pc[waiters[i]] = "waitlock" /\ lock # waiters[i]
  /\ admitNow * One <= availNow

\* one task sleeps in the loop while another queues for the lock, after an
\* admission at the same instant
C2_Witness ==
  /\ admitNow >= 1
  /\ \E t, u \in Tasks : InLoop(t) /\ pc[u] = "waitlock"

\* C3: from a full bucket of capacity C and rate R, with no reset and no
\* set_rate_limit, at most C + R*t callers are admitted within time t.
C3_AdmissionBound ==
  steady => admitted * One <= bucket_capacity + requests_per_second * now

\* the bound is met with equality after time has passed
C3_Witness ==
  /\ steady /\ now > 0 /\ admitted >= 2
  /\ admitted * One = bucket_capacity + requests_per_second * now

\* ---- the history of a logical call
HttpIdx(lg) == {i \in 1..Len(lg) : lg[i][1] = "http"}
SleepIdx(lg) == {i \in 1..Len(lg) : lg[i][1] = "sleep"}
HasAcquireTimeout(lg) == \E i \in 1..Len(lg) : lg[i][1] = "acq_timeout"
\* the value of the loop variable "attempt" when event i happened
AttemptAt(lg, i) == Cardinality({j \in SleepIdx(lg) : j < i})
TransportFailure(o) == o.kind = "exception"
Is429(o) == o.kind = "response" /\ o.status = 429
Is2xx(o) == o.kind = "response" /\ o.status \in 200..299
Transient(o) == TransportFailure(o) \/ Is429(o)
NonTransient(o) == o.kind = "response" /\ ~Is2xx(o) /\ ~Is429(o)
LastHttp(lg) == Len(lg) > 0 /\ lg[Len(lg)][1] = "http"
LastOutcome(lg) == lg[Len(lg)][2]
Requested(t) == mode[t] \in {"request", "first", "next"}
\* the integer a Retry-After header text stands for, None for any other text
HeaderSeconds(hdr) ==
  CASE hdr = "0" -> 0 [] hdr = "1" -> 1 [] hdr = "2" -> 2 [] OTHER -> None

\* C4 (as claimed): a rate-limit timeout of acquire() ends the logical call
\* at once: nothing follows it, neither a sleep nor another acquire() nor an
\* HTTP attempt, and the call has failed with that error.
C4_AcquireTimeoutFatal ==
  \A t \in Tasks : \A i \in 1..Len(log[t]) :
    log[t][i][1] = "acq_timeout" =>
      /\ i = Len(log[t])
      /\ Done(t)
      /\ result[t] = AcquireTimeoutError

\* C5 (as claimed): a finished call all of whose HTTP attempts failed at
\* transport level made exactly max_retries + 1 HTTP attempts.
C5_Original ==
  \A t \in Tasks :
    (/\ Requested(t) /\ Done(t)
     /\ HttpIdx(log[t]) # {}
     /\ \A i \in HttpIdx(log[t]) : TransportFailure(log[t][i][2]))
    => Cardinality(HttpIdx(log[t])) = max_retries + 1

\* position i of a history without acquire() timeouts
Pattern(i) == CASE i % 3 = 1 -> "admit" [] i % 3 = 2 -> "http" [] OTHER -> "sleep"

\* C5 (amended): no call makes more than max_retries + 1 HTTP attempts; a
\* finished call, all of whose acquire() calls were admitted and all of
\* whose HTTP attempts failed at transport level, made exactly
\* max_retries + 1 HTTP attempts with one sleep between consecutive attempts
\* and none after the last, and failed; a call that succeeded ended on its
\* first successful attempt, every earlier attempt having failed transiently.
C5_TransportRetries ==
  \A t \in Tasks : Requested(t) =>
    LET lg == log[t] IN
    /\ Cardinality(HttpIdx(lg)) <= max_retries + 1
    /\ (/\ Done(t) /\ ~HasAcquireTimeout(lg)
        /\ HttpIdx(lg) # {}
        /\ \A i \in HttpIdx(lg) : TransportFailure(lg[i][2]))
       => /\ Cardinality(HttpIdx(lg)) = max_retries + 1
          /\ Len(lg) = 3 * (max_retries + 1) - 1
          /\ \A i \in 1..Len(lg) : lg[i][1] = Pattern(i)
          /\ result[t].err \in {"CanvasTimeoutError", "CanvasAPIError"}
    /\ (Done(t) /\ result[t].err = "none")
       => /\ LastHttp(lg) /\ Is2xx(LastOutcome(lg))
          /\ \A i \in HttpIdx(lg) : i < Len(lg) => Transient(lg[i][2])

\* three transport failures in a row exhaust max_retries = 2
C5_Witness ==
  /\ Done(Caller) /\ Requested(Caller) /\ max_retries = 2
  /\ ~HasAcquireTimeout(log[Caller])
  /\ Cardinality(HttpIdx(log[Caller])) = 3
  /\ \A i \in HttpIdx(log[Caller]) : TransportFailure(log[Caller][i][2])
  /\ result[Caller].err = "CanvasTimeoutError"

\* the call of task t gave up after a transient failure of its last attempt
Exhausted(t) ==
  /\ Requested(t) /\ Done(t)
  /\ LastHttp(log[t]) /\ Transient(LastOutcome(log[t]))

C7_RetryAfterWait ==
  \A t \in Tasks : \A i \in HttpIdx(log[t]) :
    LET lg == log[t]
        o == lg[i][2]
    IN (Is429(o) /\ i < Len(lg)) =>
         /\ lg[i + 1][1] = "sleep"
         /\ HeaderSeconds(o.hdr) # None => lg[i + 1][2] = HeaderSeconds(o.hdr)
         /\ o.hdr = "absent" => lg[i + 1][2] = 2 ^ AttemptAt(lg, i)

\* C8: a response that is neither a success nor a 429 ends the logical call
\* where it occurs: it is the last thing the call did, and the call has
\* failed with an error that carries the status code.
C8_NonTransientFinal ==
  \A t \in Tasks : \A i \in HttpIdx(log[t]) :
    NonTransient(log[t][i][2]) =>
      /\ i = Len(log[t])
      /\ Done(t)
      /\ result[t].status_code = log[t][i][2].status
      /\ result[t].err \notin {"none", "pending", "CanvasRateLimitError",
                                "CanvasTimeoutError"}

\* a 500 arrives on a retry, with retries left
C8_Witness ==
  /\ Done(Caller) /\ LastHttp(log[Caller])
  /\ LastOutcome(log[Caller]).status = 500
  /\ SleepIdx(log[Caller]) # {}
  /\ attempt[Caller] < max_retries

\* the class the specification gives a status code
ExpectedClass(status) ==
  CASE status \in 200..299 -> "none"
    [] status = 429 -> "CanvasRateLimitError"
    [] status = 401 -> "CanvasAuthError"
    [] status = 403 -> "CanvasPermissionError"
    [] status = 404 -> "CanvasNotFoundError"
    [] status \in (400..499) \ {401, 403, 404, 429} -> "CanvasValidationError"
    [] status \in 500..599 -> "CanvasServerError"
    [] OTHER -> "CanvasAPIError"

\* C9: every status code is classified, into the class the specification
\* gives it, and every error raised for a response carries its status code.
C9_Classification ==
  \A t \in Tasks :
    (Requested(t) /\ Done(t) /\ LastHttp(log[t])
     /\ LastOutcome(log[t]).kind = "response")
    => /\ result[t].err = ExpectedClass(LastOutcome(log[t]).status)
       /\ result[t].status_code = LastOutcome(log[t]).status

\* a redirect falls through to the generic error
C9_Witness ==
  /\ Done(Caller) /\ LastHttp(log[Caller])
  /\ LastOutcome(log[Caller]).kind = "response"
  /\ LastOutcome(log[Caller]).status = 302
  /\ result[Caller] = [err |-> "CanvasAPIError", status_code |-> 302,
                        retry_after |-> None]

\* ---- link-header pagination
RECURSIVE AllItems(_)
AllItems(pgs) ==
  IF pgs = <<>> THEN <<>>
  ELSE AllItems(SubSeq(pgs, 1, Len(pgs) - 1)) \o pgs[Len(pgs)].items

IsPrefix(a, b) == Len(a) <= Len(b) /\ a = SubSeq(b, 1, Len(a))

HasLink(page, r, u) ==
  \E n \in 1..Len(page.link) :
    page.link[n].ok /\ page.link[n].rel = r /\ page.link[n].url = u
HasRel(page, r) ==
  \E n \in 1..Len(page.link) : page.link[n].ok /\ page.link[n].rel = r

\* k >= 1 non-empty pages, each but the last with a rel="next" link to the
\* page after it
NonEmptyChain ==
  /\ Len(pages) >= 1
  /\ \A i \in 1..Len(pages) :
       /\ Len(pages[i].items) >= 1
       /\ i < Len(pages) => HasLink(pages[i], "next", i + 1)
       /\ i = Len(pages) => ~HasRel(pages[i], "next")

\* C10: over a chain of k non-empty pages the iterator yields the items of
\* the pages in page order and in-page order, each once; when it signals the
\* end it has yielded them all with exactly k _make_request calls, the first
\* fetch included; it never makes more than k calls.
C10_LinkPagination ==
  NonEmptyChain =>
    /\ IsPrefix(yielded, AllItems(pages))
    /\ fetches <= Len(pages)
    /\ last_anext = "StopAsyncIteration" =>
         /\ yielded = AllItems(pages)
         /\ fetches = Len(pages)

\* a listing of three pages with five items in all has been drained
C10_Witness ==
  /\ NonEmptyChain /\ Len(pages) = 3
  /\ last_anext = "StopAsyncIteration"
  /\ Len(yielded) = 5
  /\ fetches = 3

\* ---- counter-idiom pagination
IsRequest(e) == e[1] = "request"
IsPage(e) == e[1] = "page"
\* the request() calls a get_paginated made, and the bodies they returned
RequestsOf(lg) == SelectSeq(lg, IsRequest)
BodiesOf(lg) == SelectSeq(lg, IsPage)
AllLists(bodies) == \A k \in 1..Len(bodies) : bodies[k][2].type = "list"

RECURSIVE ConcatBodies(_)
ConcatBodies(bodies) ==
  IF bodies = <<>> THEN <<>>
  ELSE ConcatBodies(SubSeq(bodies, 1, Len(bodies) - 1)) \o bodies[Len(bodies)][2].items

GetPaginatedReturned(t) ==
  cpc[t] = "idle" /\ cresult[t].op = "get_paginated" /\ cresult[t].out = "return"

\* C11: get_paginated asks for the pages 1, 2, 3, ... in this order, each
\* with the same per_page; as long as the pages come back as lists it goes on
\* exactly while they hold at least per_page items, so it returns right
\* after the first page with fewer than per_page items (zero included) and
\* asks for no later page; what it returns is the concatenation of the items
\* of the pages it asked for, in request order.
C11_CounterPagination ==
  \A t \in Tasks :
    cop[t] = "get_paginated" =>
      LET reqs == RequestsOf(clog[t])
          bodies == BodiesOf(clog[t])
      IN /\ \A k \in 1..Len(reqs) : reqs[k] = <<"request", k, per_page>>
         /\ AllLists(bodies) =>
              /\ \A k \in 1..Len(bodies) :
                   k < Len(reqs) => Len(bodies[k][2].items) >= per_page
              /\ GetPaginatedReturned(t) =>
                   /\ Len(bodies) = Len(reqs)
                   /\ Len(bodies[Len(bodies)][2].items) < per_page
                   /\ cresult[t].value = ConcatBodies(bodies)

\* two pages were asked for and three items returned, while the server holds
\* a third, non-empty page that was never asked for
C11_Witness ==
  /\ GetPaginatedReturned(Caller)
  /\ cpaging = "paged" /\ Len(cpages) = 3 /\ Len(cpages[3]) > 0
  /\ Len(RequestsOf(clog[Caller])) = 2
  /\ AllLists(BodiesOf(clog[Caller]))
  /\ Len(cresult[Caller].value) = 3

\* ---- collect_all
\* the last collect_all call returned, it was made on a sequence nobody had
\* consumed from, and nothing was consumed since
CollectedFresh ==
  /\ collected.out = "return"
  /\ yielded = collected.items
  /\ pc[Caller] = "idle" /\ it_state = "ready"

\* C12 (as claimed): over a chain of non-empty pages, collect_all(limit)
\* returns the first min(limit, total) items of the sequence, in order, for
\* every limit it is given, and all the items when it is given none; when it
\* stops at the limit it has fetched no page past the one holding the last
\* item it gathered.
C12_CollectAll ==
  (NonEmptyChain /\ CollectedFresh) =>
    LET total == AllItems(pages)
        items == collected.items
    IN IF collected.limit = None
         THEN items = total /\ fetches = Len(pages)
         ELSE /\ items = SubSeq(total, 1, Min(collected.limit, Len(total)))
              /\ fetches = IF items = <<>> THEN 1 ELSE items[Len(items)][1]

\* ---- termination of pagination
\* C13 (as claimed): whatever successful responses the server gives, a
\* get_paginated call that is in progress returns after finitely many
\* request() calls.
C13_FiniteSequence == (cpc[Caller] = "http") ~> (cpc[Caller] = "idle")

\* ---- CourseCache
ResolveReturned(t) ==
  cpc[t] = "idle" /\ cresult[t].op = "resolve" /\ cresult[t].out = "return"
Refreshes(lg) == Len(SelectSeq(lg, LAMBDA e : e[1] = "refresh"))
NetworkCalls(lg) == Len(RequestsOf(lg))

\* C14: a resolve that returned gave back the identifier itself when it is
\* all digits or starts with "sis_course_id:", else the id the forward map
\* (as it is after the refresh the call may have made) holds for it, else
\* "sis_course_id:" + identifier; a resolve that raised did so with the HTTP
\* error of its listing call, never with an error of its own.
C14_ResolveResult ==
  LET val == cresult[Caller].arg
  IN /\ ResolveReturned(Caller) =>
          cresult[Caller].value =
            IF IsDigit(val) \/ StartsWith(val, SisPrefix) THEN val
            ELSE IF val \in DOMAIN code_to_id THEN code_to_id[val]
            ELSE SisPrefix \o val
     /\ (cresult[Caller].op = "resolve" /\ cresult[Caller].out = "raise") =>
          /\ Refreshes(clog[Caller]) = 1
          /\ cresult[Caller].error \in
               {"httpx.HTTPStatusError", "httpx.RequestError", "ValueError"}

\* an all-digit identifier that is also a course code of the populated cache
\* came back unchanged; so did a code found after a refresh
C14_Witness ==
  /\ ResolveReturned(Caller)
  /\ cresult[Caller].arg = <<"1">>
  /\ <<"1">> \in DOMAIN code_to_id
  /\ cresult[Caller].value = <<"1">>
  /\ code_to_id[<<"1">>] = <<"2">>
  /\ <<"A">> \in DOMAIN code_to_id

\* C15: a resolve call makes a refresh exactly when its identifier is not
\* all digits, does not start with "sis_course_id:", is not a key of the
\* forward map and that map is empty when the call is made; it makes one
\* refresh at most, and without a refresh it makes no network call.
C15_ResolveNetwork ==
  \A t \in Tasks :
    (cop[t] = "resolve" /\ clog[t] # <<>>) =>
      LET val == cident[t]
          hit == clog[t][1][2]
          empty == clog[t][1][3]
          due == ~IsDigit(val) /\ ~StartsWith(val, SisPrefix) /\ ~hit /\ empty
      IN /\ Refreshes(clog[t]) = IF due THEN 1 ELSE 0
         /\ ~due => NetworkCalls(clog[t]) = 0 /\ cpc[t] = "idle"

\* resolve("A") on the empty cache made one refresh, of two listing
\* requests, and returned the id found
C15_Witness ==
  /\ ResolveReturned(Caller)
  /\ cresult[Caller].arg = <<"A">> /\ cresult[Caller].value = <<"2">>
  /\ Refreshes(clog[Caller]) = 1
  /\ NetworkCalls(clog[Caller]) = 2

\* C16 (as claimed): the two maps are inverse to each other (so both are
\* empty together): code c maps to id i exactly when id i maps to code c.
C16_Bidirectional ==
  /\ \A c \in DOMAIN code_to_id :
       code_to_id[c] \in DOMAIN id_to_code /\ id_to_code[code_to_id[c]] = c
  /\ \A i \in DOMAIN id_to_code :
       id_to_code[i] \in DOMAIN code_to_id /\ code_to_id[id_to_code[i]] = i

\* C17: at every moment, and so whenever a reader runs between the steps of
\* the calls in flight, the two maps are the ones the last completed rebuild
\* left (the empty maps before the first): never the cleared or half-built
\* maps of a refresh in progress.
C17_AtomicRefresh ==
  /\ CacheMaps = snapshot
  /\ lookup.fn = "get_id" =>
       (lookup.out.found => \E c \in Courses :
                               CourseId(c) = lookup.out.v /\ CourseCode(c) = lookup.arg)
  /\ lookup.fn = "get_code" =>
       (lookup.out.found => \E c \in Courses :
                               CourseCode(c) = lookup.out.v /\ CourseId(c) = lookup.arg)

\* a refresh that has read the first page of a new listing is waiting for
\* the second while a reader got an entry of the previous snapshot that the
\* new listing no longer holds
C17_Witness ==
  /\ cpc[Contender] = "http" /\ cop[Contender] = "refresh"
  /\ cpage[Contender] = 2
  /\ lookup.fn = "get_id" /\ lookup.during /\ lookup.out.found
  /\ lookup.arg = <<"1">> /\ lookup.out.v = <<"2">>
  /\ code_to_id = (<<"A">> :> <<"1">>) @@ (<<"1">> :> <<"2">>)
  /\ cpages = <<<<[id |-> 2, course_code |-> <<"A">>]>>>>

\* ---- CredentialManager
\* C18 (as claimed): over every history of store_token and remove_token
\* calls and every availability of the keyring, get_token(i) returns the
\* token last stored for i and not removed since, None without one;
\* has_credentials(i) is true exactly with such a record; remove_token(i)
\* returns True exactly when a record for i existed.
C18_Step ==
  /\ cred_result'.op = "get_token" =>
       /\ cred_result'.out = "return"
       /\ cred_result'.value = stored'[cred_result'.instance]
  /\ cred_result'.op = "has_credentials" =>
       (cred_result'.value = "True" <=> stored'[cred_result'.instance] # NoToken)
  /\ \A i \in Instances :
       RemoveToken(i) => (cred_result'.value = "True" <=> stored[i] # NoToken)
C18_RoundTrip == [][C18_Step]_vars

\* C19 (as claimed): a new key is generated only when neither the keyring
\* nor the key file yields one, and a key once in the keyring or in the key
\* file is never replaced.
C19_Step ==
  /\ keyring_key # None => keyring_key' = keyring_key
  /\ key_file # None => key_file' = key_file
  /\ next_key' # next_key => KeyringGet = None /\ LoadKeyFromFile = None
C19_KeyResolution == [][C19_Step]_vars

\* C20 (as claimed): get_token returns None when the instance has no
\* record; raises CredentialDecryptionError when it has one and no key is
\* found or the key found does not decrypt the stored text; and returns no
\* value but the plaintext stored.
C20_Step ==
  \A i \in Instances :
    GetToken(i) =>
      LET record == credentials_file.exists /\ i \in DOMAIN LoadCredentials
          r == cred_result'
      IN /\ ~record => r.out = "return" /\ r.value = NoToken
         /\ (record /\ (GetTokenKey = None
                          \/ ~Decrypts(GetTokenKey, LoadCredentials[i]))) =>
              r.out = "raise" /\ r.value = "CredentialDecryptionError"
         /\ (r.out = "return" /\ r.value # NoToken) => r.value = stored[i]
C20_GetTokenOutcomes == [][C20_Step]_vars

\* ---- ConfigManager
\* C21: whatever store_token and save_config calls were made, every value
\* of the credentials file is the ciphertext, under a key the manager
\* generated, of the token last stored for its instance, and the
\* configuration file holds no api_token.
C21_NoPlaintext ==
  /\ \A i \in DOMAIN LoadCredentials :
       /\ LoadCredentials[i].key \in 1..(next_key - 1)
       /\ LoadCredentials[i] = Encrypt(LoadCredentials[i].key, stored[i])
  /\ config_file.exists => config_file.api_token = NoToken

\* a configuration carrying a token was saved: the token is in the
\* credentials file as ciphertext, the configuration file is without it
C21_Witness ==
  /\ cfg_result.op = "save_config"
  /\ config_file.exists /\ config_file.name = "prod"
  /\ cred_result = CredResult("store_token", "prod", "return", NoToken)
  /\ "prod" \in DOMAIN LoadCredentials
  /\ LoadCredentials["prod"] = Encrypt(1, "tokA")

\* C22 (as claimed): load_config reads the environment variable only when
\* get_token returned None; a token get_token returned is the token of the
\* loaded configuration whatever the environment holds; an error get_token
\* raised is raised by load_config.
C22_Step ==
  (LoadConfig /\ config_file.exists) =>
    LET g == GetTokenOutcome(config_file.name)
        r == cfg_result'
    IN /\ r.env_read => (g.out = "return" /\ g.value = NoToken)
       /\ (g.out = "return" /\ g.value # NoToken) =>
            (r.out = "return" /\ r.api_token = g.value)
       /\ g.out = "raise" => r.out = "CredentialDecryptionError"
C22_TokenPrecedence == [][C22_Step]_vars

\* ---- RateLimiter, timing
\* C23 (as claimed): an acquire(timeout=T) call is over, admitted or timed
\* out, within T plus one sleep interval 1/rate of its start, also when it
\* waits behind other callers: no such call is still waiting later than that.
C23_HardLimit ==
  \A t \in Tasks :
    (pc[t] \in {"waitlock", "sleeping"} /\ acq_timeout[t] # None) =>
      now - start_time[t] <= acq_timeout[t] + WaitTime(Bucket)

\* C24 (as claimed): for every positive rate, an acquire() called alone on a
\* full bucket is admitted in its first pass, without sleeping.
C24_Step ==
  \A t \in Tasks, tmo \in AcquireTimeouts :
    (CallAcquire(t, tmo) /\ LockFree /\ tokens = bucket_capacity) =>
      (pc'[t] = "idle" /\ result'[t] = OkResult)
C24_FullBucketAdmits == [][C24_Step]_vars

\* C30: at a rate of at least one request per second, with time going on,
\* every acquire() called without a timeout is admitted in the end, however
\* many callers there are; and the lock is held by a task inside acquire()
\* only, so a caller that returned or timed out blocks nobody.
C30_Progress ==
  /\ \A t \in Tasks :
       (pc[t] # "idle" /\ acq_timeout[t] = None)
         ~> (pc[t] = "idle" /\ result[t] = OkResult)
  /\ [](lock # NoTask => pc[lock] = "sleeping")

\* a caller timed out behind another one, its successor holds the lock and
\* waits for a token
C30_Witness ==
  \E t, u \in Tasks :
    /\ Done(u) /\ result[u] = AcquireTimeoutError
    /\ pc[t] = "sleeping" /\ lock = t /\ acq_timeout[t] = None
    /\ tokens < One /\ waiters = <<>>

\* the acquire() calls of a logical call that returned, a token taken
Admissions(lg) == {i \in 1..Len(lg) : lg[i] = <<"admit">>}

\* C25: in every _make_request call, the first-page and next-page fetches of
\* a PaginatedIterator included, each HTTP attempt comes right after an
\* acquire() of the same attempt that returned, having taken a token; a
\* call in flight at client.request was admitted last; so the call never
\* issued more HTTP requests than it consumed tokens
C25_AdmissionGating ==
  \A t \in Tasks :
    /\ \A i \in HttpIdx(log[t]) : i - 1 \in Admissions(log[t])
    /\ pc[t] = "http" => Len(log[t]) \in Admissions(log[t])
    /\ Cardinality(HttpIdx(log[t])) + (IF pc[t] = "http" THEN 1 ELSE 0)
         <= Cardinality(Admissions(log[t]))

\* a next-page fetch whose first attempt timed out is at its second HTTP
\* attempt, admitted again after the backoff
C25_Witness ==
  /\ mode[Caller] = "next" /\ pc[Caller] = "http" /\ attempt[Caller] = 1
  /\ Len(log[Caller]) = 4
  /\ log[Caller][2][1] = "http" /\ log[Caller][3][1] = "sleep"
  /\ tokens < bucket_capacity

\* C26: over every finite chain of pages, pages with zero items included,
\* an __anext__ call returns an item, signals StopAsyncIteration, or fails
\* as the page request it made failed, and with nothing else; what was
\* yielded so far is a prefix of the items of the pages in order, and all
\* of them once StopAsyncIteration is signalled
C26_EmptyPages ==
  /\ last_anext \in {"none", "item", "StopAsyncIteration", "error"}
  /\ IsPrefix(yielded, AllItems(pages))
  /\ last_anext = "StopAsyncIteration" => yielded = AllItems(pages)

\* a failure of an attempt of _make_request that carries no Retry-After
NoRetryAfter(e) == e[1] = "acq_timeout" \/ (e[1] = "http" /\ e[2].hdr = "absent")

C28_RetryProtocol ==
  \A t \in Tasks :
    LET lg == rlog[t]
        h == HttpIdx(lg)
        ended == cpc[t] = "idle" /\ lg # <<>>
        last == lg[Len(lg)][3]
    IN /\ Cardinality(h) <= MAX_RETRIES + 1
       /\ \A i \in h : i > 1 =>
            /\ lg[i - 1][1] = "sleep"
            /\ Is429(lg[i - 2][3]) /\ lg[i - 2][2] < MAX_RETRIES
       /\ (ended /\ \A i \in h : Is429(lg[i][3])) =>
            /\ Cardinality(h) = MAX_RETRIES + 1
            /\ cresult[t].out = "raise"
            /\ cresult[t].error = "httpx.HTTPStatusError"
       /\ (ended /\ NonTransient(last)) =>
            /\ cresult[t].out = "raise"
            /\ cresult[t].error = "httpx.HTTPStatusError"
       /\ (ended /\ last.kind = "response" /\ last.status = 204) =>
            /\ cresult[t].out = "return"
            /\ clog[t][Len(clog[t])] = <<"page", JsonObject(<<>>)>>

\* the operation of task t ended because its listing call failed
ListingFailed(t) == cpc[t] = "idle" /\ cresult[t].out = "raise"

\* C29: when the listing call of a refresh() fails, on whatever page, the
\* refresh (and a resolve that called it) raises the failure of the request
\* and both maps are what they were before the call, that is what the last
\* completed rebuild left; the failed get_paginated hands no item to its
\* caller
C29_FailureAtomicity ==
  \A t \in Tasks :
    /\ cpc[t] = "http" /\ cop[t] \in {"refresh", "resolve"} => CacheMaps = snapshot
    /\ ListingFailed(t) =>
         /\ CacheMaps = snapshot
         /\ cresult[t].error = "httpx.HTTPStatusError"
         /\ cresult[t].value = <<>>
         /\ all_results[t] = <<>>

\* a refresh of a populated cache failed on page 2, after page 1 had come
\* in: the maps still hold what the earlier refresh built
C29_Witness ==
  /\ ListingFailed(Caller) /\ cresult[Caller].op = "refresh"
  /\ clog[Caller][Len(clog[Caller])] = <<"request", 2, per_page>>
  /\ DOMAIN code_to_id # {}
  /\ CacheMaps = snapshot

====
